---------------------------- MODULE Spec2Model ----------------------------
(***************************************************************************)
(* A model of the EdgeJSONStudio core utilities (core/diff.py,             *)
(* core/converter.py, core/parser.py, core/query.py, core/schema.py), of   *)
(* app/settings.py, app/exceptions.py and plugins/__init__.py, and of the  *)
(* workspace and main window of json_parser.py.                            *)
(*                                                                         *)
(* Python values are modelled as tagged records:                           *)
(*   None            [t |-> "null"]                                        *)
(*   True / False    [t |-> "bool", b |-> TRUE / FALSE]                    *)
(*   int             [t |-> "num",  n |-> i]                               *)
(*   str             [t |-> "str",  s |-> <<c1, ..., cn>>]                 *)
(*   list            [t |-> "list", items |-> <<x1, ..., xn>>]             *)
(*   dict            [t |-> "map",  pairs |-> << <<k1, x1>>, ... >>]       *)
(* A str is the sequence of its characters (one-character strings), so     *)
(* that joining, splitting and comparing strings is computed, not assumed. *)
(* A dict keeps its insertion order, as Python's dict does.                *)
(***************************************************************************)
EXTENDS Integers, Sequences, FiniteSets, TLC

VARIABLES
    mode,        \* which group of operations this behaviour exercises
    args,        \* the inputs of the behaviour: the arguments of a call, the
                 \* installed libraries, the files on disk
    ret,         \* what the last call returned ([t |-> "none"] before it)
    _data,       \* AppSettings._data
    file,        \* the settings file: its JSON document, or absent
    events,      \* the stores a setter made, the signals emitted and the
                 \* saves made by the last call, in order
    updates,     \* how many times update_recent_file has been called
    workItems,   \* parser._executor: the work items submitted so far, in order
    queue,       \* parser._executor: the submitted items no worker has taken
    running,     \* parser._executor: the items its worker threads are running
    pc,          \* per work item, how many steps of its function have run
    logs,        \* the list objects the running parse calls created
    futures,     \* the Future of each work item
    excepthook,  \* sys.excepthook
    handling,    \* the call of sys.excepthook in progress, if any
    effects,     \* what the hooks have written and shown so far
    registry,    \* PluginManager.registry
    sys_modules, \* the plugin modules imported so far
    calls,       \* the plugin constructors and lifecycle methods called so far
    tabs,        \* JsonParserWindow._tab_widget: its JsonWorkspace pages and
                 \* their tab texts, in tab order
    currentIndex, \* JsonParserWindow._tab_widget.currentIndex(), from 1
    status,      \* the message JsonParserWindow._status_bar shows
    pending,     \* stream_tree_nodes: the events its ijson parser has yet to give
    stack,       \* stream_tree_nodes: its stack
    yielded      \* stream_tree_nodes: the pairs it has yielded so far

\* the state of the pure functions' calls, of the AppSettings object, of the
\* parser's executor, of the exception hook, of the PluginManager and of the
\* JsonParserWindow, and the frame of the generator stream_tree_nodes
callVars == <<args, ret>>
settingsVars == <<_data, file, events, updates>>
poolVars == <<workItems, queue, running, pc, logs, futures>>
hookVars == <<excepthook, handling, effects>>
pluginVars == <<registry, sys_modules, calls>>
windowVars == <<tabs, currentIndex, status>>
streamVars == <<pending, stack, yielded>>
objectVars ==
    <<settingsVars, poolVars, hookVars, pluginVars, windowVars, streamVars>>

vars == <<mode, callVars, objectVars>>

---------------------------------------------------------------------------
(* Characters and strings                                                  *)

\* ord(c) for the characters the model uses
Ord(c) ==
    CASE c = "." -> 46
      [] c = "0" -> 48
      [] c = "1" -> 49
      [] c = "2" -> 50
      [] c = "3" -> 51
      [] c = "4" -> 52
      [] c = "5" -> 53
      [] c = "6" -> 54
      [] c = "7" -> 55
      [] c = "8" -> 56
      [] c = "9" -> 57
      [] c = "[" -> 91
      [] c = "]" -> 93
      [] c = "a" -> 97
      [] c = "b" -> 98
      [] c = "c" -> 99

Digits == {"0", "1", "2", "3", "4", "5", "6", "7", "8", "9"}

\* str.__lt__: lexicographic by code point, a proper prefix first
RECURSIVE StrLt(_, _)
StrLt(s, u) ==
    IF u = <<>> THEN FALSE
    ELSE IF s = <<>> THEN TRUE
    ELSE IF Ord(Head(s)) # Ord(Head(u)) THEN Ord(Head(s)) < Ord(Head(u))
    ELSE StrLt(Tail(s), Tail(u))

\* sorted(S) for a set S of strings
RECURSIVE SortedStrs(_)
SortedStrs(S) ==
    IF S = {} THEN <<>>
    ELSE LET m == CHOOSE x \in S : \A y \in S : x = y \/ StrLt(x, y)
         IN  <<m>> \o SortedStrs(S \ {m})

DigitChar(d) ==
    CASE d = 0 -> "0" [] d = 1 -> "1" [] d = 2 -> "2" [] d = 3 -> "3"
      [] d = 4 -> "4" [] d = 5 -> "5" [] d = 6 -> "6" [] d = 7 -> "7"
      [] d = 8 -> "8" [] d = 9 -> "9"

\* str(n) for n >= 0
RECURSIVE IntToStr(_)
IntToStr(n) ==
    IF n < 10 THEN <<DigitChar(n)>>
    ELSE IntToStr(n \div 10) \o <<DigitChar(n % 10)>>

\* str.isdigit()
IsDigit(s) == s # <<>> /\ \A i \in 1..Len(s) : s[i] \in Digits

\* int(s) for a string of digits
RECURSIVE StrToInt(_)
StrToInt(s) ==
    IF s = <<>> THEN 0
    ELSE 10 * StrToInt(SubSeq(s, 1, Len(s) - 1)) + (Ord(s[Len(s)]) - 48)

---------------------------------------------------------------------------
(* Python values                                                           *)

JNull == [t |-> "null"]
JBool(x) == [t |-> "bool", b |-> x]
JNum(n) == [t |-> "num", n |-> n]
JStr(s) == [t |-> "str", s |-> s]
JList(s) == [t |-> "list", items |-> s]
JMap(s) == [t |-> "map", pairs |-> s]

IsMap(x) == x.t = "map"
IsList(x) == x.t = "list"
IsScalar(x) == x.t \in {"null", "bool", "num", "str"}

\* dict helpers: keys(), in, [], and insertion of a key
MapKeys(m) == {m.pairs[i][1] : i \in 1..Len(m.pairs)}
MapHas(m, k) == \E i \in 1..Len(m.pairs) : m.pairs[i][1] = k
MapGet(m, k) == m.pairs[CHOOSE i \in 1..Len(m.pairs) : m.pairs[i][1] = k][2]
MapSet(m, k, x) ==
    IF MapHas(m, k)
    THEN JMap([i \in 1..Len(m.pairs) |-> IF m.pairs[i][1] = k THEN <<k, x>> ELSE m.pairs[i]])
    ELSE JMap(Append(m.pairs, <<k, x>>))

\* the number a bool or an int compares as (bool is a subclass of int)
NumOf(x) == IF x.t = "bool" THEN (IF x.b THEN 1 ELSE 0) ELSE x.n

\* Python's ==
RECURSIVE PyEq(_, _)
PyEq(x, y) ==
    IF x.t \in {"bool", "num"} /\ y.t \in {"bool", "num"} THEN NumOf(x) = NumOf(y)
    ELSE IF x.t # y.t THEN FALSE
    ELSE IF x.t = "null" THEN TRUE
    ELSE IF x.t = "str" THEN x.s = y.s
    ELSE IF x.t = "list" THEN
        /\ Len(x.items) = Len(y.items)
        /\ \A i \in 1..Len(x.items) : PyEq(x.items[i], y.items[i])
    ELSE
        /\ MapKeys(x) = MapKeys(y)
        /\ \A k \in MapKeys(x) : PyEq(MapGet(x, k), MapGet(y, k))

---------------------------------------------------------------------------
(* core/diff.py                                                            *)

DiffEntry(path, change_type, value_a, value_b) ==
    [path |-> path, change_type |-> change_type,
     value_a |-> value_a, value_b |-> value_b]

\* f"{prefix}.{key}" if prefix else key
NextPrefix(prefix, key) ==
    IF prefix # <<>> THEN prefix \o <<".">> \o key ELSE key

\* f"{prefix}[{idx}]"
IndexPrefix(prefix, idx) == prefix \o <<"[">> \o IntToStr(idx) \o <<"]">>

\* mutant: the keys are visited in insertion order, a's before b's
M_DiffKeyOrder_Unsorted(a, b) ==
    [i \in 1..Len(a.pairs) |-> a.pairs[i][1]]
    \o SelectSeq([i \in 1..Len(b.pairs) |-> b.pairs[i][1]], LAMBDA k : ~MapHas(a, k))

\* the order in which diff visits the keys of two dicts
DiffKeyOrder(a, b) == SortedStrs(MapKeys(a) \cup MapKeys(b))

\* mutant: the guard a != b is missing
M_DiffLeaf_Unguarded(a, b, prefix) == <<DiffEntry(prefix, "change", a, b)>>

\* the else branch of diff: two values that are not both dicts or both lists
DiffLeaf(a, b, prefix) ==
    IF ~PyEq(a, b) THEN <<DiffEntry(prefix, "change", a, b)>> ELSE <<>>

\* mutant: the remainder starts one index late (range(len(b) + 1, len(a)))
M_DiffListRest_OffByOne(a, b, prefix) ==
    IF Len(a.items) > Len(b.items)
    THEN [j \in 1..(Len(a.items) - Len(b.items) - 1) |->
            DiffEntry(IndexPrefix(prefix, Len(b.items) + j), "remove",
                      a.items[Len(b.items) + j + 1], JNull)]
    ELSE IF Len(b.items) > Len(a.items)
    THEN [j \in 1..(Len(b.items) - Len(a.items) - 1) |->
            DiffEntry(IndexPrefix(prefix, Len(a.items) + j), "add",
                      JNull, b.items[Len(a.items) + j + 1])]
    ELSE <<>>

\* the entries diff appends for the indices past the shorter list
DiffListRest(a, b, prefix) ==
    IF Len(a.items) > Len(b.items)
    THEN [j \in 1..(Len(a.items) - Len(b.items)) |->
            DiffEntry(IndexPrefix(prefix, Len(b.items) + j - 1), "remove",
                      a.items[Len(b.items) + j], JNull)]
    ELSE IF Len(b.items) > Len(a.items)
    THEN [j \in 1..(Len(b.items) - Len(a.items)) |->
            DiffEntry(IndexPrefix(prefix, Len(a.items) + j - 1), "add",
                      JNull, b.items[Len(a.items) + j])]
    ELSE <<>>

RECURSIVE diff(_, _, _)
RECURSIVE DiffKeys(_, _, _, _)
RECURSIVE DiffZip(_, _, _, _)

\* the loop over sorted(keys), from the keys still to visit
DiffKeys(a, b, prefix, keys) ==
    IF keys = <<>> THEN <<>>
    ELSE LET key == Head(keys)
             next_prefix == NextPrefix(prefix, key)
             here == IF ~MapHas(a, key)
                     THEN <<DiffEntry(next_prefix, "add", JNull, MapGet(b, key))>>
                     ELSE IF ~MapHas(b, key)
                     THEN <<DiffEntry(next_prefix, "remove", MapGet(a, key), JNull)>>
                     ELSE diff(MapGet(a, key), MapGet(b, key), next_prefix)
         IN  here \o DiffKeys(a, b, prefix, Tail(keys))

\* the loop over enumerate(zip(a, b)), from 0-based index idx
DiffZip(a, b, prefix, idx) ==
    IF idx >= Len(a.items) \/ idx >= Len(b.items) THEN <<>>
    ELSE diff(a.items[idx + 1], b.items[idx + 1], IndexPrefix(prefix, idx))
         \o DiffZip(a, b, prefix, idx + 1)

diff(a, b, prefix) ==
    IF IsMap(a) /\ IsMap(b) THEN DiffKeys(a, b, prefix, DiffKeyOrder(a, b))
    ELSE IF IsList(a) /\ IsList(b)
    THEN DiffZip(a, b, prefix, 0) \o DiffListRest(a, b, prefix)
    ELSE DiffLeaf(a, b, prefix)

PathSet(entries) == {entries[i].path : i \in 1..Len(entries)}

\* mutant: the paths changed on either side
M_ConflictPaths_Union(diffs_a, diffs_b) == PathSet(diffs_a) \cup PathSet(diffs_b)

\* conflict_paths of three_way_merge
ConflictPaths(diffs_a, diffs_b) == PathSet(diffs_a) \cap PathSet(diffs_b)

three_way_merge(base, a, b) ==
    [merged |-> a,
     conflicts |-> SortedStrs(ConflictPaths(diff(base, a, <<>>), diff(base, b, <<>>)))]

---------------------------------------------------------------------------
(* core/converter.py: flatten_json and restore_json                        *)

EmptyMap == JMap(<<>>)

\* dict.update(other): other's pairs are written in other's order
RECURSIVE DictUpdate(_, _)
DictUpdate(items, other) ==
    IF other = <<>> THEN items
    ELSE DictUpdate(MapSet(items, other[1][1], other[1][2]), Tail(other))

\* new_key = f"{parent_key}{sep}{key}" if parent_key else key
NewKey(parent_key, sep, key) ==
    IF parent_key # <<>> THEN parent_key \o sep \o key ELSE key

RECURSIVE flatten_json(_, _, _)
RECURSIVE FlattenItems(_, _, _, _)
RECURSIVE FlattenList(_, _, _, _, _)

\* the loop over data.items(), from the pairs still to visit
FlattenItems(items, pairs, parent_key, sep) ==
    IF pairs = <<>> THEN items
    ELSE FlattenItems(
           DictUpdate(items,
               flatten_json(pairs[1][2], NewKey(parent_key, sep, pairs[1][1]),
                            sep).pairs),
           Tail(pairs), parent_key, sep)

\* the loop over enumerate(data), from 0-based index
FlattenList(items, data, index, parent_key, sep) ==
    IF index >= Len(data) THEN items
    ELSE FlattenList(
           DictUpdate(items,
               flatten_json(data[index + 1],
                            NewKey(parent_key, sep, IntToStr(index)), sep).pairs),
           data, index + 1, parent_key, sep)

flatten_json(data, parent_key, sep) ==
    IF IsMap(data) THEN FlattenItems(EmptyMap, data.pairs, parent_key, sep)
    ELSE IF IsList(data) THEN FlattenList(EmptyMap, data.items, 0, parent_key, sep)
    ELSE MapSet(EmptyMap, parent_key, data)

\* whether sep occurs in s at position i (1-based)
OccursAt(s, sep, i) ==
    i + Len(sep) - 1 <= Len(s) /\ SubSeq(s, i, i + Len(sep) - 1) = sep

\* str.split(sep) for a non-empty sep
RECURSIVE Split(_, _)
Split(s, sep) ==
    IF \E i \in 1..Len(s) : OccursAt(s, sep, i)
    THEN LET i == CHOOSE i \in 1..Len(s) :
                    OccursAt(s, sep, i) /\ \A j \in 1..(i - 1) : ~OccursAt(s, sep, j)
         IN  <<SubSeq(s, 1, i - 1)>> \o Split(SubSeq(s, i + Len(sep), Len(s)), sep)
    ELSE <<s>>

\* how a call that does not return ends
Hang == [t |-> "hang"]
Raise(exc) == [t |-> "raise", exc |-> exc]
Failed(r) == r.t \in {"hang", "raise"}

\* a list padded at its end with x up to length n
PadTo(l, n, x) ==
    JList([i \in 1..(IF Len(l.items) < n THEN n ELSE Len(l.items)) |->
             IF i <= Len(l.items) THEN l.items[i] ELSE x])

ListSet(l, index, x) ==
    JList([i \in 1..Len(l.items) |-> IF i = index + 1 THEN x ELSE l.items[i]])

\* len(current), or the TypeError of a value that has no len()
HasLen(x) == x.t \in {"map", "list", "str"}
PyLen(x) ==
    IF IsMap(x) THEN Len(x.pairs) ELSE IF IsList(x) THEN Len(x.items) ELSE Len(x.s)

\* while len(current) <= index:
\*     current.append({}) if isinstance(current, list) else None
\* a list grows to index + 1; anything else that is too short is never
\* changed by the loop body, so the loop never ends
PadLoop(current, index) ==
    IF ~HasLen(current) THEN Raise("TypeError")
    ELSE IF IsList(current) THEN PadTo(current, index + 1, EmptyMap)
    ELSE IF PyLen(current) <= index THEN Hang
    ELSE current

\* the assignment at the last part of a key
SetLast(current, last, value) ==
    IF IsMap(current) THEN MapSet(current, last, value)
    ELSE IF ~IsDigit(last) THEN Raise("ValueError")
    ELSE IF ~HasLen(current) THEN Raise("TypeError")
    ELSE IF IsList(current)
    THEN ListSet(PadTo(current, StrToInt(last) + 1, JNull), StrToInt(last), value)
    ELSE IF PyLen(current) <= StrToInt(last) THEN Raise("AttributeError")
    ELSE Raise("TypeError")

\* The body of the loop over flat_data.items() for one key: `current` after
\* the walk along parts and the assignment, written back into the object the
\* walk started from; or how the call fails.
RECURSIVE RestoreWalk(_, _, _)
RestoreWalk(current, parts, value) ==
    IF Len(parts) = 1 THEN SetLast(current, parts[1], value)
    ELSE
      LET part == Head(parts)
          padded == IF IsDigit(part) THEN PadLoop(current, StrToInt(part))
                    ELSE current
      IN  IF Failed(padded) THEN padded
          ELSE IF IsMap(padded) THEN
              \* current.setdefault(part, {})
              LET child == IF MapHas(padded, part) THEN MapGet(padded, part)
                           ELSE EmptyMap
                  sub == RestoreWalk(child, Tail(parts), value)
              IN  IF Failed(sub) THEN sub ELSE MapSet(padded, part, sub)
          ELSE IF ~IsDigit(part) THEN Raise("ValueError")
          ELSE IF ~HasLen(padded) THEN Raise("TypeError")
          ELSE IF StrToInt(part) >= PyLen(padded) THEN Raise("IndexError")
          ELSE IF IsList(padded) THEN
              LET sub == RestoreWalk(padded.items[StrToInt(part) + 1],
                                     Tail(parts), value)
              IN  IF Failed(sub) THEN sub
                  ELSE ListSet(padded, StrToInt(part), sub)
          ELSE
              \* a str: current[int(part)] is a one-character str
              LET sub == RestoreWalk(JStr(<<padded.s[StrToInt(part) + 1]>>),
                                     Tail(parts), value)
              IN  IF Failed(sub) THEN sub ELSE padded

\* the loop over flat_data.items(), from the pairs still to visit
RECURSIVE RestoreItems(_, _, _)
RestoreItems(result, pairs, sep) ==
    IF pairs = <<>> THEN result
    ELSE LET r == RestoreWalk(result, Split(pairs[1][1], sep), pairs[1][2])
         IN  IF Failed(r) THEN r ELSE RestoreItems(r, Tail(pairs), sep)

restore_json(flat_data, sep) == RestoreItems(EmptyMap, flat_data.pairs, sep)

---------------------------------------------------------------------------
(* app/settings.py: AppSettings                                            *)

\* the most entries update_recent_file keeps
RecentCap == 10

Absent == [t |-> "absent"]

\* _data as __init__ sets it
DefaultData ==
    [theme |-> "system", language |-> "auto", networkEnabled |-> FALSE,
     recentFiles |-> <<>>]

SaveEvent == [e |-> "save"]
EmitEvent(sig, value) == [e |-> "emit", sig |-> sig, value |-> value]
StoreEvent(key, value) == [e |-> "store", key |-> key, value |-> value]

\* mutant: the setter has no test, it emits and saves on every assignment
M_SetProperty_NoGuard(data, key, sig, value) ==
    [data |-> [data EXCEPT ![key] = value],
     events |-> <<StoreEvent(key, value), EmitEvent(sig, value), SaveEvent>>]

\* the body of a property setter:
\*   if self._data.get(key) != value:
\*       self._data[key] = value; self.<sig>.emit(value); self.save()
SetProperty(data, key, sig, value) ==
    IF data[key] # value
    THEN [data |-> [data EXCEPT ![key] = value],
          events |-> <<StoreEvent(key, value), EmitEvent(sig, value), SaveEvent>>]
    ELSE [data |-> data, events |-> <<>>]

\* mutant: the earlier occurrence of path is not removed
M_RecentAfter_NoDedup(recent, path) ==
    LET moved == <<path>> \o recent
    IN  SubSeq(moved, 1, IF Len(moved) < RecentCap THEN Len(moved) ELSE RecentCap)

\* mutant: the list is not cut (recent instead of recent[:10])
M_RecentAfter_Uncut(recent, path) ==
    <<path>> \o SelectSeq(recent, LAMBDA p : p # path)

\* the list update_recent_file stores: path first, the other entries after
\* it, cut to the first RecentCap
RecentAfter(recent, path) ==
    LET moved == <<path>> \o SelectSeq(recent, LAMBDA p : p # path)
    IN  SubSeq(moved, 1, IF Len(moved) < RecentCap THEN Len(moved) ELSE RecentCap)

---------------------------------------------------------------------------
(* Bounded inputs                                                          *)

\* the most entries a generated list or dict holds
MaxLen == 2

NoRet == [t |-> "none"]

\* sequences over S of length at most n
SeqsUpTo(S, n) == UNION {[1..k -> S] : k \in 0..n}

\* dicts (insertion-ordered, keys distinct) over keys K and values V
MapsOver(K, V, n) ==
    {JMap(s) : s \in {q \in SeqsUpTo(K \X V, n) :
                        \A i, j \in 1..Len(q) : q[i][1] = q[j][1] => i = j}}

ListsOver(V, n) == {JList(s) : s \in SeqsUpTo(V, n)}

DiffScalars == {JNull, JBool(TRUE), JNum(1), JStr(<<"a">>)}
DiffKeySet == {<<"a">>, <<"b">>}

\* scalars, and lists and dicts of scalars
DiffFlat ==
    DiffScalars \cup ListsOver(DiffScalars, MaxLen)
                \cup MapsOver(DiffKeySet, DiffScalars, MaxLen)

\* ... and those nested once more, in a list or under a key
DiffValues ==
    DiffFlat \cup {JList(<<x>>) : x \in DiffFlat}
             \cup {JMap(<< <<k, x>> >>) : k \in {<<"a">>}, x \in DiffFlat}

DiffPrefixes == {<<>>, <<"c">>}

---------------------------------------------------------------------------
(* The objects a behaviour does not use stay as they are constructed       *)

\* core/parser.py: ThreadPoolExecutor(max_workers=4, ...)
max_workers == 4

\* how many submissions a workload of mixed tasks holds at most
MaxMixed == 2

\* how many submissions a burst holds beyond max_workers
ExtraTasks == 1

BurstLen == max_workers + ExtraTasks
MaxTasks == IF MaxMixed > BurstLen THEN MaxMixed ELSE BurstLen
TaskIds == 1..MaxTasks

\* the AppSettings state of the behaviours that make no AppSettings call
SettingsIdle ==
    /\ _data = DefaultData
    /\ file = Absent
    /\ events = <<>>
    /\ updates = 0

\* the executor with nothing submitted
PoolIdle ==
    /\ workItems = <<>>
    /\ queue = <<>>
    /\ running = {}
    /\ pc = [i \in TaskIds |-> 0]
    /\ logs = [i \in TaskIds |-> <<>>]
    /\ futures = <<>>

\* the interpreter's own hook, no exception in flight
HookIdle ==
    /\ excepthook = "sys.__excepthook__"
    /\ handling = [at |-> "idle"]
    /\ effects = <<>>

\* PluginManager(plugins_dir): an empty registry, nothing imported
PluginsIdle ==
    /\ registry = JMap(<<>>)
    /\ sys_modules = {}
    /\ calls = <<>>

\* A character outside ASCII is written as its code point, "u6570".

\* f"<u6570><u636E><u9875> {count}", the text of a new tab
PageTitle(count) == <<"u6570", "u636E", "u9875", " ">> \o IntToStr(count)

\* the text _value_preview shows while no node is selected
PreviewHint == [t |-> "hint"]

\* QPlainTextEdit.clear(): the editor with no text
NoText == [t |-> "empty"]

\* JsonWorkspace(parent) under the tab text title: nothing typed, an empty
\* tree with nothing selected, both copy buttons disabled
JsonWorkspace(title) ==
    [title |-> title,
     _editor |-> NoText,
     _tree |-> <<>>,
     selected |-> <<>>,
     _filter_input |-> <<>>,
     _path_display |-> <<>>,
     _copy_path_button |-> FALSE,
     _copy_value_button |-> FALSE,
     _value_preview |-> PreviewHint]

\* JsonParserWindow(): one workspace under the first page title, and the
\* ready message in the status bar
WindowIdle ==
    /\ tabs = <<JsonWorkspace(PageTitle(1))>>
    /\ currentIndex = 1
    /\ status = [msg |-> "ready"]

\* no stream_tree_nodes generator started
StreamIdle ==
    /\ pending = <<>>
    /\ stack = <<>>
    /\ yielded = <<>>

ObjectsIdle ==
    /\ SettingsIdle /\ PoolIdle /\ HookIdle /\ PluginsIdle /\ WindowIdle
    /\ StreamIdle

---------------------------------------------------------------------------
(* Calls of diff(a, b, prefix)                                             *)

InitDiff ==
    /\ mode = "diff"
    /\ args \in [a : DiffValues, b : DiffValues, prefix : DiffPrefixes]
    /\ ret = NoRet
    /\ ObjectsIdle

\* results = diff(a, b, prefix)
CallDiff ==
    /\ mode = "diff"
    /\ ret = NoRet
    /\ ret' = [t |-> "diff", entries |-> diff(args.a, args.b, args.prefix)]
    /\ UNCHANGED <<mode, args, objectVars>>

NextDiff == CallDiff

SpecDiff == InitDiff /\ [][NextDiff]_vars

\* the concatenation of a sequence of sequences
RECURSIVE ConcatAll(_)
ConcatAll(ss) == IF ss = <<>> THEN <<>> ELSE Head(ss) \o ConcatAll(Tail(ss))

\* the strictly ascending enumeration of a set of strings
Ascending(S) ==
    CHOOSE s \in [1..Cardinality(S) -> S] :
        \A i, j \in 1..Cardinality(S) : i < j => StrLt(s[i], s[j])

\* a path extended by a dict key
Extended(p, k) == IF p = <<>> THEN k ELSE p \o <<".">> \o k

\* a path extended by a list index
Indexed(p, i) == p \o <<"[">> \o IntToStr(i) \o <<"]">>

DiffReturned == mode = "diff" /\ ret.t = "diff"

\* C3: for every JSON value a, diff(a, a) is the empty list.
C3_DiffSelfEmpty ==
    (DiffReturned /\ args.a = args.b) => ret.entries = <<>>

C3_Witness ==
    /\ DiffReturned
    /\ args.a = args.b
    /\ args.a = JMap(<< <<<<"a">>, JList(<<JNum(1), JStr(<<"a">>)>>)>> >>)
    /\ ret.entries = <<>>

\* what C4 says diff contributes for key k of dicts a and b under path p
C4_Segment(a, b, p, k) ==
    IF ~MapHas(a, k)
    THEN << [path |-> Extended(p, k), change_type |-> "add",
             value_a |-> JNull, value_b |-> MapGet(b, k)] >>
    ELSE IF ~MapHas(b, k)
    THEN << [path |-> Extended(p, k), change_type |-> "remove",
             value_a |-> MapGet(a, k), value_b |-> JNull] >>
    ELSE diff(MapGet(a, k), MapGet(b, k), Extended(p, k))

\* C4: for two dicts, diff visits the union of the keys in ascending order;
\* a key only in b gives one "add" entry, a key only in a one "remove" entry
\* (no recursion into the one-sided value), a key in both the entries of the
\* diff of the two values at the path extended by the key.
C4_MapDiff ==
    (DiffReturned /\ IsMap(args.a) /\ IsMap(args.b)) =>
        LET ks == Ascending(MapKeys(args.a) \cup MapKeys(args.b))
        IN  ret.entries =
              ConcatAll([i \in 1..Len(ks) |->
                           C4_Segment(args.a, args.b, args.prefix, ks[i])])

C4_Witness ==
    /\ DiffReturned
    /\ args.prefix = <<"c">>
    /\ args.a = JMap(<< <<<<"b">>, JNum(1)>>, <<<<"a">>, JNum(1)>> >>)
    /\ args.b = JMap(<< <<<<"a">>, JBool(TRUE)>> >>)
    /\ Len(ret.entries) = 1
    /\ ret.entries[1].change_type = "remove"

\* C5: for two lists, diff compares the elements pairwise below the shorter
\* length and then emits |len(a) - len(b)| entries, one per remaining index
\* in ascending order at path prefix[index]: "remove" entries carrying
\* a[index] when a is longer, "add" entries carrying b[index] when b is.
C5_ListDiff ==
    (DiffReturned /\ IsList(args.a) /\ IsList(args.b)) =>
        LET la == Len(args.a.items)
            lb == Len(args.b.items)
            n == IF la < lb THEN la ELSE lb
            extra == IF la < lb THEN lb - la ELSE la - lb
            paired == ConcatAll([i \in 1..n |->
                         diff(args.a.items[i], args.b.items[i],
                              Indexed(args.prefix, i - 1))])
        IN  /\ Len(ret.entries) = Len(paired) + extra
            /\ SubSeq(ret.entries, 1, Len(paired)) = paired
            /\ \A j \in 1..extra :
                 ret.entries[Len(paired) + j] =
                   IF la > lb
                   THEN [path |-> Indexed(args.prefix, n + j - 1),
                         change_type |-> "remove",
                         value_a |-> args.a.items[n + j], value_b |-> JNull]
                   ELSE [path |-> Indexed(args.prefix, n + j - 1),
                         change_type |-> "add",
                         value_a |-> JNull, value_b |-> args.b.items[n + j]]

C5_Witness ==
    /\ DiffReturned
    /\ args.prefix = <<"c">>
    /\ args.a = JList(<<JNum(1)>>)
    /\ IsList(args.b)
    /\ Len(args.b.items) = 2
    /\ Len(ret.entries) = 2
    /\ ret.entries[1].change_type = "change"
    /\ ret.entries[2].change_type = "add"
    /\ ret.entries[2].path = <<"c", "[", "1", "]">>

\* C6: for two scalars x and y, diff emits one "change" entry (values x and
\* y, at the current path) when x differs from y and none when they are equal;
\* diff({k: x}, {k: y}) with x different from y is one "change" entry at path k.
C6_ScalarChange ==
    /\ (DiffReturned /\ IsScalar(args.a) /\ IsScalar(args.b)) =>
          ret.entries =
            IF args.a # args.b
            THEN << [path |-> args.prefix, change_type |-> "change",
                     value_a |-> args.a, value_b |-> args.b] >>
            ELSE <<>>
    /\ \A k \in DiffKeySet : \A x, y \in DiffScalars :
          ( /\ DiffReturned
            /\ args.prefix = <<>>
            /\ args.a = JMap(<< <<k, x>> >>)
            /\ args.b = JMap(<< <<k, y>> >>)
            /\ x # y ) =>
          ret.entries = << [path |-> k, change_type |-> "change",
                            value_a |-> x, value_b |-> y] >>

---------------------------------------------------------------------------
(* Calls of three_way_merge(base, a, b)                                    *)

MergeLeaves == {JNum(1), JNum(2), JList(<<JNum(1)>>), JList(<<JNum(1), JNum(2)>>)}

\* dicts over the keys "a" and "b", and two values that are not dicts
MergeValues ==
    MapsOver(DiffKeySet, MergeLeaves, MaxLen) \cup {JNum(1), JList(<<JNum(2)>>)}

InitMerge ==
    /\ mode = "merge"
    /\ args \in [base : MergeValues, a : MergeValues, b : MergeValues]
    /\ ret = NoRet
    /\ ObjectsIdle

\* result = three_way_merge(base, a, b)
CallMerge ==
    /\ mode = "merge"
    /\ ret = NoRet
    /\ ret' = [t |-> "merge", result |-> three_way_merge(args.base, args.a, args.b)]
    /\ UNCHANGED <<mode, args, objectVars>>

NextMerge == CallMerge

SpecMerge == InitMerge /\ [][NextMerge]_vars

MergeReturned == mode = "merge" /\ ret.t = "merge"

\* the paths of the entries of diff(base, x)
ChangedPaths(base, x) ==
    LET d == diff(base, x, <<>>) IN {d[i].path : i \in 1..Len(d)}

\* C2 (as claimed): the conflicts are the sorted symmetric difference of the
\* two changed-path sets, the paths in diff(base, a) or diff(base, b) but not
\* in both.
C2_ConflictsSymmetricDifference ==
    MergeReturned =>
        LET pa == ChangedPaths(args.base, args.a)
            pb == ChangedPaths(args.base, args.b)
        IN  ret.result.conflicts = Ascending((pa \ pb) \cup (pb \ pa))

\* C2 (amended): the conflicts are the sorted intersection of the two
\* changed-path sets, the paths in both diff(base, a) and diff(base, b).
C2_ConflictsIntersection ==
    MergeReturned =>
        LET pa == ChangedPaths(args.base, args.a)
            pb == ChangedPaths(args.base, args.b)
        IN  ret.result.conflicts = Ascending(pa \cap pb)

C2_Witness ==
    /\ MergeReturned
    /\ ChangedPaths(args.base, args.a) \ ChangedPaths(args.base, args.b) # {}
    /\ ChangedPaths(args.base, args.b) \ ChangedPaths(args.base, args.a) # {}
    /\ ret.result.conflicts = << <<"a">> >>

\* C20: the 'merged' value returned by three_way_merge(base, a, b) is the
\* three-way merge of its inputs: at every path changed only between base and
\* b it carries b's value (it does not differ from b there), at every path
\* changed only between base and a it carries a's value, and at the paths
\* changed on neither side it carries base's value (it differs from base only
\* at paths one of the sides changed).
C20_MergedCarriesBothSides ==
    MergeReturned =>
        LET pa == ChangedPaths(args.base, args.a)
            pb == ChangedPaths(args.base, args.b)
            merged == ret.result.merged
        IN  /\ (pb \ pa) \cap ChangedPaths(merged, args.b) = {}
            /\ (pa \ pb) \cap ChangedPaths(merged, args.a) = {}
            /\ ChangedPaths(args.base, merged) \subseteq (pa \cup pb)

---------------------------------------------------------------------------
(* Calls of flatten_json(data) and restore_json(flat_data)                 *)

FlatScalars == {JNum(1), JNum(2)}
FlatKeySet == {<<"x">>, <<>>, <<"0">>}

\* scalars, and lists and dicts of scalars
FlatLevel ==
    FlatScalars \cup ListsOver(FlatScalars, MaxLen)
                \cup MapsOver(FlatKeySet, FlatScalars, MaxLen)

\* a set of values, and each of them as the one element of a list or dict
Wrapped(S) ==
    S \cup {JList(<<x>>) : x \in S}
      \cup {JMap(<< <<k, x>> >>) : k \in FlatKeySet, x \in S}

FlatInputs == Wrapped(Wrapped(FlatLevel))

InitFlat ==
    /\ mode = "flat"
    /\ args \in [data : FlatInputs, sep : {<<".">>}]
    /\ ret = NoRet
    /\ ObjectsIdle

\* flat = flatten_json(data)
CallFlatten ==
    /\ mode = "flat"
    /\ ret = NoRet
    /\ ret' = [t |-> "flat", flat |-> flatten_json(args.data, <<>>, args.sep)]
    /\ UNCHANGED <<mode, args, objectVars>>

\* out = restore_json(flat); out is Hang or Raise(..) when the call does not
\* return a value
CallRestore ==
    /\ mode = "flat"
    /\ ret.t = "flat"
    /\ ret' = [t |-> "restored", flat |-> ret.flat,
               out |-> restore_json(ret.flat, args.sep)]
    /\ UNCHANGED <<mode, args, objectVars>>

NextFlat == CallFlatten \/ CallRestore

SpecFlat == InitFlat /\ [][NextFlat]_vars

Flattened == mode = "flat" /\ ret.t \in {"flat", "restored"}
Restored == mode = "flat" /\ ret.t = "restored"

\* no empty list or dict anywhere in x
RECURSIVE NoEmptyContainer(_)
NoEmptyContainer(x) ==
    IF IsMap(x) THEN /\ x.pairs # <<>>
                     /\ \A i \in 1..Len(x.pairs) : NoEmptyContainer(x.pairs[i][2])
    ELSE IF IsList(x) THEN /\ x.items # <<>>
                           /\ \A i \in 1..Len(x.items) : NoEmptyContainer(x.items[i])
    ELSE TRUE

\* every dict key anywhere in x is non-empty and holds neither a separator
\* nor a digit
RECURSIVE PlainKeys(_)
PlainKeys(x) ==
    IF IsMap(x)
    THEN \A i \in 1..Len(x.pairs) :
           /\ x.pairs[i][1] # <<>>
           /\ \A j \in 1..Len(x.pairs[i][1]) :
                  x.pairs[i][1][j] \notin Digits \cup {"."}
           /\ PlainKeys(x.pairs[i][2])
    ELSE IF IsList(x) THEN \A i \in 1..Len(x.items) : PlainKeys(x.items[i])
    ELSE TRUE

\* C1: for every map a, restore_json(flatten_json(a)) equals a, differences
\* being permitted only at empty maps and sequences inside a.  Stated for the
\* maps that hold no empty container (and whose keys are plain words), where
\* no difference is permitted.
C1_RoundTrip ==
    (Restored /\ IsMap(args.data) /\ NoEmptyContainer(args.data)
              /\ PlainKeys(args.data)) =>
        (~Failed(ret.out) /\ PyEq(ret.out, args.data))

\* the scalar leaves of x as <<chain, value>>, chain being the dict keys and
\* list indices from the root to the leaf
RECURSIVE Leaves(_, _)
Leaves(x, chain) ==
    IF IsMap(x)
    THEN UNION {Leaves(x.pairs[i][2], Append(chain, x.pairs[i][1])) :
                  i \in 1..Len(x.pairs)}
    ELSE IF IsList(x)
    THEN UNION {Leaves(x.items[i], Append(chain, IntToStr(i - 1))) :
                  i \in 1..Len(x.items)}
    ELSE {<<chain, x>>}

\* sep.join(chain)
RECURSIVE JoinChain(_, _)
JoinChain(chain, sep) ==
    IF chain = <<>> THEN <<>>
    ELSE IF Len(chain) = 1 THEN chain[1]
    ELSE chain[1] \o sep \o JoinChain(Tail(chain), sep)

\* C7: flatten_json(data) is a single-level mapping with one entry for every
\* scalar leaf of data, keyed by the separator-joined chain of keys and
\* indices from the root to the leaf and holding the leaf's value, with no
\* other entry; no value of it is a map or a sequence.
C7_FlattenLeaves ==
    Flattened =>
        LET leaves == Leaves(args.data, <<>>)
            flat == ret.flat.pairs
        IN  /\ Len(flat) = Cardinality(leaves)
            /\ {flat[i] : i \in 1..Len(flat)} =
                 {<<JoinChain(l[1], args.sep), l[2]>> : l \in leaves}
            /\ \A i \in 1..Len(flat) : IsScalar(flat[i][2])

\* the positions below the root that the keys of a flat mapping name: the
\* non-empty proper prefixes of their parts
FlatPositions(flat, sep) ==
    UNION {{SubSeq(Split(flat[i][1], sep), 1, n) :
              n \in 1..(Len(Split(flat[i][1], sep)) - 1)} : i \in 1..Len(flat)}

IsPrefixOf(p, q) == Len(p) <= Len(q) /\ SubSeq(q, 1, Len(p)) = p

\* the path segments directly below position p
ChildSegments(flat, sep, p) ==
    {Split(flat[i][1], sep)[Len(p) + 1] :
        i \in {j \in 1..Len(flat) :
                 /\ Len(Split(flat[j][1], sep)) > Len(p)
                 /\ IsPrefixOf(p, Split(flat[j][1], sep))}}

\* the value of x at position p ([t |-> "missing"] when there is none)
RECURSIVE ValueAt(_, _)
ValueAt(x, p) ==
    IF p = <<>> THEN x
    ELSE IF IsMap(x) /\ MapHas(x, Head(p)) THEN ValueAt(MapGet(x, Head(p)), Tail(p))
    ELSE IF IsList(x) /\ IsDigit(Head(p)) /\ StrToInt(Head(p)) < Len(x.items)
    THEN ValueAt(x.items[StrToInt(Head(p)) + 1], Tail(p))
    ELSE [t |-> "missing"]

\* C8: restore_json rebuilds sequences from numeric path segments: at every
\* position whose child segments are decimal indices the restored value is a
\* sequence holding the children at those indices (restoring
\* {'x.0': 1, 'x.1': 2} gives {'x': [1, 2]}), and at other positions a map.
\* Stated for the calls that return.
C8_RestoreSequences ==
    (Restored /\ ~Failed(ret.out)) =>
        /\ \A p \in FlatPositions(ret.flat.pairs, args.sep) :
             LET segs == ChildSegments(ret.flat.pairs, args.sep, p)
                 here == ValueAt(ret.out, p)
             IN  IF \A c \in segs : IsDigit(c)
                 THEN /\ IsList(here)
                      /\ \A i \in 1..Len(ret.flat.pairs) :
                           LET parts == Split(ret.flat.pairs[i][1], args.sep)
                           IN  (Len(parts) = Len(p) + 1 /\ IsPrefixOf(p, parts)) =>
                                 ValueAt(here, <<parts[Len(parts)]>>)
                                   = ret.flat.pairs[i][2]
                 ELSE IsMap(here)
        /\ (ret.flat = JMap(<< <<<<"x", ".", "0">>, JNum(1)>>,
                               <<<<"x", ".", "1">>, JNum(2)>> >>)) =>
             ret.out = JMap(<< <<<<"x">>, JList(<<JNum(1), JNum(2)>>)>> >>)

---------------------------------------------------------------------------
(* Features that import an optional library (converter.py, parser.py,      *)
(* query.py, schema.py).  A module-level name is None when its import      *)
(* failed; `installed` is the set of libraries whose import succeeded.     *)
(* A call is recorded as the work it did, in order (files opened, parsers  *)
(* and library functions called, log lines appended), and how it ended.    *)

Libs == {"yaml", "tomli_w", "json5", "ijson", "jsonpath_ng", "jmespath", "jsonschema"}

Returned(by) == [kind |-> "returned", by |-> by]
Raised(exc) == [kind |-> "raised", exc |-> exc]
\* RuntimeError("当前环境缺少 <lib> ...")
MissingDependency(lib) == [kind |-> "missing", lib |-> lib]

CallRecord(feature, work, outcome) ==
    [t |-> "call", feature |-> feature, work |-> work, outcome |-> outcome]

\* mutant: the `if yaml is None` guard is missing; None.safe_dump raises
M_json_to_yaml_NoGuard(installed) ==
    IF "yaml" \notin installed
    THEN CallRecord("json_to_yaml", <<>>, Raised("AttributeError"))
    ELSE CallRecord("json_to_yaml", <<"yaml.safe_dump">>, Returned("library"))

json_to_yaml(installed) ==
    IF "yaml" \notin installed
    THEN CallRecord("json_to_yaml", <<>>, MissingDependency("yaml"))
    ELSE CallRecord("json_to_yaml", <<"yaml.safe_dump">>, Returned("library"))

yaml_to_json(installed) ==
    IF "yaml" \notin installed
    THEN CallRecord("yaml_to_json", <<>>, MissingDependency("yaml"))
    ELSE CallRecord("yaml_to_json", <<"yaml.safe_load">>, Returned("library"))

\* without tomli-w a dict is written by the built-in fallback
json_to_toml(installed, is_dict) ==
    IF "tomli_w" \in installed
    THEN CallRecord("json_to_toml", <<"tomli_w.dumps">>, Returned("library"))
    ELSE IF ~is_dict
    THEN CallRecord("json_to_toml", <<>>, Raised("ValueError"))
    ELSE CallRecord("json_to_toml", <<"write lines">>, Returned("fallback"))

\* mutant: without json5 the lenient parse announces the standard parser
\* instead of naming json5 first
M_parse_json_lenient_FallbackSilent(installed, file_ok, content_ok) ==
    LET parser == IF "json5" \in installed THEN "json5.load" ELSE "json.load"
        log == IF "json5" \in installed THEN <<"log: json5">>
               ELSE <<"log: json">>
    IN  IF ~file_ok
        THEN CallRecord("parse_json_lenient", log \o <<"log: failed">>,
                        Raised("OSError"))
        ELSE IF ~content_ok
        THEN CallRecord("parse_json_lenient",
                        log \o <<"open", parser, "log: failed">>,
                        Raised("ValueError"))
        ELSE CallRecord("parse_json_lenient", log \o <<"open", parser>>,
                        Returned(IF "json5" \in installed THEN "library"
                                 ELSE "fallback"))

\* parse_json_stream(path, strict=False)
parse_json_lenient(installed, file_ok, content_ok) ==
    LET parser == IF "json5" \in installed THEN "json5.load" ELSE "json.load"
        log == IF "json5" \in installed THEN <<"log: json5">>
               ELSE <<"log: json5", "log: json5 missing, fallback">>
    IN  IF ~file_ok
        THEN CallRecord("parse_json_lenient", log \o <<"log: failed">>,
                        Raised("OSError"))
        ELSE IF ~content_ok
        THEN CallRecord("parse_json_lenient",
                        log \o <<"open", parser, "log: failed">>,
                        Raised("ValueError"))
        ELSE CallRecord("parse_json_lenient", log \o <<"open", parser>>,
                        Returned(IF "json5" \in installed THEN "library"
                                 ELSE "fallback"))

\* the body of the generator stream_tree_nodes(path), as run by list(...)
stream_tree_nodes(installed, file_ok) ==
    IF ~file_ok
    THEN CallRecord("stream_tree_nodes", <<>>, Raised("OSError"))
    ELSE IF "ijson" \notin installed
    THEN CallRecord("stream_tree_nodes", <<"open">>, MissingDependency("ijson"))
    ELSE CallRecord("stream_tree_nodes", <<"open", "ijson.parse">>,
                    Returned("library"))

query_jsonpath(installed) ==
    IF "jsonpath_ng" \notin installed
    THEN CallRecord("query_jsonpath", <<>>, MissingDependency("jsonpath_ng"))
    ELSE CallRecord("query_jsonpath", <<"jsonpath_parse", "find">>,
                    Returned("library"))

query_jmespath(installed) ==
    IF "jmespath" \notin installed
    THEN CallRecord("query_jmespath", <<>>, MissingDependency("jmespath"))
    ELSE CallRecord("query_jmespath", <<"jmespath.search">>, Returned("library"))

\* SchemaValidator(schema)
SchemaValidator(installed) ==
    IF "jsonschema" \notin installed
    THEN CallRecord("SchemaValidator", <<>>, MissingDependency("jsonschema"))
    ELSE CallRecord("SchemaValidator", <<"Draft7Validator">>, Returned("library"))

\* SchemaValidator.from_file(path): the file is read before cls(...) runs
SchemaValidator_from_file(installed, file_ok, content_ok) ==
    IF ~file_ok
    THEN CallRecord("SchemaValidator.from_file", <<>>, Raised("OSError"))
    ELSE IF ~content_ok
    THEN CallRecord("SchemaValidator.from_file", <<"open", "json.load">>,
                    Raised("ValueError"))
    ELSE CallRecord("SchemaValidator.from_file",
                    <<"open", "json.load">> \o SchemaValidator(installed).work,
                    SchemaValidator(installed).outcome)

InitDeps ==
    /\ mode = "deps"
    /\ args \in [installed : SUBSET Libs, file_ok : BOOLEAN,
                 content_ok : BOOLEAN, is_dict : BOOLEAN]
    /\ ret = NoRet
    /\ ObjectsIdle

CallJsonToYaml ==
    /\ mode = "deps"
    /\ ret' = json_to_yaml(args.installed)
    /\ UNCHANGED <<mode, args, objectVars>>

CallYamlToJson ==
    /\ mode = "deps"
    /\ ret' = yaml_to_json(args.installed)
    /\ UNCHANGED <<mode, args, objectVars>>

CallJsonToToml ==
    /\ mode = "deps"
    /\ ret' = json_to_toml(args.installed, args.is_dict)
    /\ UNCHANGED <<mode, args, objectVars>>

CallParseLenient ==
    /\ mode = "deps"
    /\ ret' = parse_json_lenient(args.installed, args.file_ok, args.content_ok)
    /\ UNCHANGED <<mode, args, objectVars>>

CallStreamTreeNodes ==
    /\ mode = "deps"
    /\ ret' = stream_tree_nodes(args.installed, args.file_ok)
    /\ UNCHANGED <<mode, args, objectVars>>

CallQueryJsonpath ==
    /\ mode = "deps"
    /\ ret' = query_jsonpath(args.installed)
    /\ UNCHANGED <<mode, args, objectVars>>

CallQueryJmespath ==
    /\ mode = "deps"
    /\ ret' = query_jmespath(args.installed)
    /\ UNCHANGED <<mode, args, objectVars>>

CallSchemaValidator ==
    /\ mode = "deps"
    /\ ret' = SchemaValidator(args.installed)
    /\ UNCHANGED <<mode, args, objectVars>>

CallSchemaFromFile ==
    /\ mode = "deps"
    /\ ret' = SchemaValidator_from_file(args.installed, args.file_ok,
                                        args.content_ok)
    /\ UNCHANGED <<mode, args, objectVars>>

NextDeps ==
    \/ CallJsonToYaml
    \/ CallYamlToJson
    \/ CallJsonToToml
    \/ CallParseLenient
    \/ CallStreamTreeNodes
    \/ CallQueryJsonpath
    \/ CallQueryJmespath
    \/ CallSchemaValidator
    \/ CallSchemaFromFile

SpecDeps == InitDeps /\ [][NextDeps]_vars

\* the optional library each feature depends on
LibOf(feature) ==
    CASE feature \in {"json_to_yaml", "yaml_to_json"} -> "yaml"
      [] feature = "json_to_toml" -> "tomli_w"
      [] feature = "parse_json_lenient" -> "json5"
      [] feature = "stream_tree_nodes" -> "ijson"
      [] feature = "query_jsonpath" -> "jsonpath_ng"
      [] feature = "query_jmespath" -> "jmespath"
      [] feature \in {"SchemaValidator", "SchemaValidator.from_file"} -> "jsonschema"

DepCalled == mode = "deps" /\ ret.t = "call"
LibAbsent == LibOf(ret.feature) \notin args.installed

\* C9 (as claimed): every feature that depends on an optional library fails
\* with the explicit missing-dependency error, raised before any other work
\* of the call, when the library is absent.
C9_MissingDependencyFirst ==
    (DepCalled /\ LibAbsent) =>
        (ret.outcome = MissingDependency(LibOf(ret.feature)) /\ ret.work = <<>>)

\* C9 (amended): with the library absent, YAML export and import, the
\* JSONPath and JMESPath queries and the SchemaValidator constructor raise the
\* missing-dependency error before any other work; stream_tree_nodes and
\* SchemaValidator.from_file raise it only after opening (from_file: and
\* parsing) the input file, and an unreadable file gives the file's error
\* instead; json_to_toml and the lenient parse do not fail for the missing
\* library: json_to_toml writes a dict with its built-in fallback (for any
\* other value it raises ValueError), the lenient parse logs the missing
\* json5 and parses with the standard json module.
C9_MissingDependencyAmended ==
    (DepCalled /\ LibAbsent) =>
        CASE ret.feature \in {"json_to_yaml", "yaml_to_json", "query_jsonpath",
                              "query_jmespath", "SchemaValidator"} ->
                /\ ret.outcome = MissingDependency(LibOf(ret.feature))
                /\ ret.work = <<>>
          [] ret.feature = "stream_tree_nodes" ->
                IF args.file_ok
                THEN /\ ret.outcome = MissingDependency("ijson")
                     /\ ret.work = <<"open">>
                ELSE ret.outcome = Raised("OSError") /\ ret.work = <<>>
          [] ret.feature = "SchemaValidator.from_file" ->
                IF args.file_ok /\ args.content_ok
                THEN /\ ret.outcome = MissingDependency("jsonschema")
                     /\ ret.work = <<"open", "json.load">>
                ELSE ret.outcome.kind = "raised"
          [] ret.feature = "json_to_toml" ->
                IF args.is_dict
                THEN ret.outcome = Returned("fallback")
                ELSE ret.outcome = Raised("ValueError") /\ ret.work = <<>>
          [] ret.feature = "parse_json_lenient" ->
                /\ SubSeq(ret.work, 1, 2) = <<"log: json5", "log: json5 missing, fallback">>
                /\ IF args.file_ok /\ args.content_ok
                   THEN /\ ret.outcome = Returned("fallback")
                        /\ ret.work[Len(ret.work)] = "json.load"
                   ELSE ret.outcome.kind = "raised"

C9_Witness ==
    /\ DepCalled
    /\ args.installed = {}
    /\ ret.feature = "json_to_toml"
    /\ ret.outcome = Returned("fallback")

---------------------------------------------------------------------------
(* Calls on an AppSettings object                                          *)

\* how many calls of update_recent_file a behaviour makes at most
MaxUpdates == 2

\* how many file paths there are beyond RecentCap
ExtraPaths == 1

Paths == 1..(RecentCap + ExtraPaths)
Themes == {"system", "dark"}
Languages == {"auto", "en"}

\* the documents an earlier run of save() may have left in the settings file
SavedDocuments ==
    {[theme |-> th, language |-> "auto", networkEnabled |-> FALSE,
      recentFiles |-> [i \in 1..n |-> i]] :
        th \in Themes, n \in {0, RecentCap - 1, RecentCap}}

\* AppSettings(): _data holds the defaults; the file is as an earlier run
\* left it
InitSettings ==
    /\ mode = "settings"
    /\ args = NoRet
    /\ ret = NoRet
    /\ _data = DefaultData
    /\ file \in {Absent} \cup SavedDocuments
    /\ events = <<>>
    /\ updates = 0
    /\ PoolIdle /\ HookIdle /\ PluginsIdle /\ WindowIdle /\ StreamIdle

\* load(): _data.update(json.load(fh)) when the file exists, else save()
Load ==
    /\ mode = "settings"
    /\ args' = [t |-> "load"]
    /\ IF file # Absent
       THEN /\ _data' = file
            /\ events' = <<>>
            /\ UNCHANGED file
       ELSE /\ file' = _data
            /\ events' = <<SaveEvent>>
            /\ UNCHANGED _data
    /\ UNCHANGED <<mode, ret, updates, poolVars, hookVars, pluginVars, windowVars, streamVars>>

\* update_recent_file(path); args keeps the path of the last such call
UpdateRecentFile ==
    /\ mode = "settings"
    /\ updates < MaxUpdates
    /\ \E path \in Paths :
         /\ args' = [t |-> "update_recent_file", path |-> path]
         /\ _data' = [_data EXCEPT !.recentFiles = RecentAfter(@, path)]
         /\ file' = _data'
         /\ events' = <<SaveEvent>>
    /\ updates' = updates + 1
    /\ UNCHANGED <<mode, ret, poolVars, hookVars, pluginVars, windowVars, streamVars>>

\* theme = value
SetTheme ==
    /\ mode = "settings"
    /\ \E value \in Themes :
         LET done == SetProperty(_data, "theme", "themeChanged", value)
         IN  /\ args' = [t |-> "set", key |-> "theme", value |-> value]
             /\ _data' = done.data
             /\ events' = done.events
             /\ file' = IF done.events # <<>> THEN done.data ELSE file
    /\ UNCHANGED <<mode, ret, updates, poolVars, hookVars, pluginVars, windowVars, streamVars>>

\* language = value
SetLanguage ==
    /\ mode = "settings"
    /\ \E value \in Languages :
         LET done == SetProperty(_data, "language", "languageChanged", value)
         IN  /\ args' = [t |-> "set", key |-> "language", value |-> value]
             /\ _data' = done.data
             /\ events' = done.events
             /\ file' = IF done.events # <<>> THEN done.data ELSE file
    /\ UNCHANGED <<mode, ret, updates, poolVars, hookVars, pluginVars, windowVars, streamVars>>

\* networkEnabled = value
SetNetworkEnabled ==
    /\ mode = "settings"
    /\ \E value \in BOOLEAN :
         LET done == SetProperty(_data, "networkEnabled", "networkEnabledChanged", value)
         IN  /\ args' = [t |-> "set", key |-> "networkEnabled", value |-> value]
             /\ _data' = done.data
             /\ events' = done.events
             /\ file' = IF done.events # <<>> THEN done.data ELSE file
    /\ UNCHANGED <<mode, ret, updates, poolVars, hookVars, pluginVars, windowVars, streamVars>>

NextSettings ==
    \/ Load
    \/ UpdateRecentFile
    \/ SetTheme
    \/ SetLanguage
    \/ SetNetworkEnabled

SpecSettings == InitSettings /\ [][NextSettings]_vars

\* C10: in every reachable state of an AppSettings object, after any sequence
\* of load, update_recent_file and property assignments, the recent-files
\* list holds at most 10 entries.
C10_RecentFilesCapped ==
    mode = "settings" => Len(_data.recentFiles) <= 10

\* a full list was loaded and a path that was not in it has been added
C10_Witness ==
    /\ mode = "settings"
    /\ updates = 1
    /\ Len(_data.recentFiles) = 10
    /\ _data.recentFiles[1] = 11
    /\ _data.recentFiles[10] = 9
    /\ file = _data

\* C11: update_recent_file(p) keeps the 10 most recently used files: after
\* the call p is the first entry and occurs exactly once, the remaining
\* entries are the previous entries other than p in their previous relative
\* order, the oldest entries beyond the tenth are dropped, and the new list
\* has been saved to the settings file.
C11_UpdateRecentFile ==
    [][(mode = "settings" /\ updates' = updates + 1) =>
          LET p == args'.path
              old == _data.recentFiles
              new == _data'.recentFiles
              others == SelectSeq(old, LAMBDA q : q # p)
              kept == IF Len(others) < 9 THEN Len(others) ELSE 9
          IN  /\ args'.t = "update_recent_file"
              /\ Len(new) = 1 + kept
              /\ new[1] = p
              /\ Cardinality({i \in 1..Len(new) : new[i] = p}) = 1
              /\ \A i \in 1..kept : new[i + 1] = others[i]
              /\ file' # Absent
              /\ file'.recentFiles = new
              /\ file' = _data']_vars

\* a full list was loaded, a new path was added and an old one used again:
\* the oldest entry is gone and the entry used again has moved to the front
C11_Witness ==
    /\ mode = "settings"
    /\ updates = 2
    /\ args = [t |-> "update_recent_file", path |-> 5]
    /\ _data.recentFiles = <<5, 11, 1, 2, 3, 4, 6, 7, 8, 9>>
    /\ file # Absent
    /\ file.recentFiles = _data.recentFiles

---------------------------------------------------------------------------
(* core/parser.py: parse_json_stream and the executor behind submit_parse  *)
(* and submit_stream                                                       *)

\* parse_json_stream(path, strict): with strict the file is opened first and
\* the parser is logged inside the with block; content_ok says whether the
\* text parses with the parser the call uses
parse_json_stream(installed, strict, file_ok, content_ok) ==
    IF ~strict
    THEN parse_json_lenient(installed, file_ok, content_ok)
    ELSE IF ~file_ok
    THEN CallRecord("parse_json_stream", <<"log: failed">>, Raised("OSError"))
    ELSE IF ~content_ok
    THEN CallRecord("parse_json_stream",
                    <<"open", "log: json", "json.load", "log: failed">>,
                    Raised("ValueError"))
    ELSE CallRecord("parse_json_stream", <<"open", "log: json", "json.load">>,
                    Returned("standard"))

\* the steps of parse_json_stream that append to its log
LogEntries ==
    {"log: json", "log: json5", "log: json5 missing, fallback", "log: failed"}

\* the work item _executor.submit(parse_json_stream, path, strict) queues
submit_parse(path, strict) ==
    [fn |-> "parse_json_stream", path |-> path, strict |-> strict]

\* the work item _executor.submit(lambda: list(stream_tree_nodes(path))) queues
submit_stream(path) ==
    [fn |-> "stream_tree_nodes", path |-> path, strict |-> FALSE]

\* the files of the behaviours: a.json holds valid JSON, b.json5 holds text
\* that only json5 parses (a trailing comma)
PoolPaths == {"a.json", "b.json5"}
ContentOk(path, parser) == path = "a.json" \/ parser = "json5.load"
FileValue(path) == IF path = "a.json" THEN JNum(1) ELSE JNum(2)

ParseSubmissions == {submit_parse(p, st) : p \in PoolPaths, st \in BOOLEAN}
Submissions == ParseSubmissions \cup {submit_stream("a.json")}

\* what the client submits, in order: a few mixed tasks, or a burst longer
\* than the pool is wide, of parses of one kind that alternate with streams
Workloads ==
    SeqsUpTo(Submissions, MaxMixed)
        \cup {[i \in 1..BurstLen |->
                  IF i % 2 = 1 THEN s ELSE submit_stream("a.json")] :
                s \in ParseSubmissions}

\* the call a worker makes for a work item
TaskCall(item, installed) ==
    IF item.fn = "parse_json_stream"
    THEN LET parser == IF ~item.strict /\ "json5" \in installed
                       THEN "json5.load" ELSE "json.load"
         IN  parse_json_stream(installed, item.strict, TRUE,
                               ContentOk(item.path, parser))
    ELSE stream_tree_nodes(installed, TRUE)

\* mutant: one module-level list serves every call
M_LogCell_Shared(i) == 1

\* log = []: each call of parse_json_stream creates its own list object
LogCell(i) == i

\* mutant: a thread per task
M_WorkerFree_Unbounded == TRUE

\* a worker thread of the pool is idle, or not created yet
WorkerFree == Cardinality(running) < max_workers

\* the step after step k of a call that appends to the log (0: none)
NextLog(work, k) ==
    LET later == {j \in (k + 1)..Len(work) : work[j] \in LogEntries}
    IN  IF later = {} THEN 0 ELSE CHOOSE j \in later : \A h \in later : j <= h

\* mutant: the worker drops what the call produced and leaves the future as
\* it is
M_Resolved_Lost(future, item, call, log) == future

\* Future.set_result((data, log)) or Future.set_exception(exc), as the call
\* returned or raised
Resolved(future, item, call, log) ==
    [future EXCEPT
        !.state = "FINISHED",
        !.outcome =
            IF call.outcome.kind # "returned"
            THEN [kind |-> "exception", exc |-> call.outcome]
            ELSE IF item.fn = "parse_json_stream"
            THEN [kind |-> "result", data |-> FileValue(item.path), log |-> log]
            ELSE [kind |-> "result", nodes |-> item.path]]

InitPool ==
    /\ mode = "pool"
    /\ args \in [installed : SUBSET {"json5", "ijson"}, workload : Workloads]
    /\ ret = NoRet
    /\ PoolIdle
    /\ SettingsIdle /\ HookIdle /\ PluginsIdle /\ WindowIdle /\ StreamIdle

\* the client's next submission: the item is queued, its Future is pending
Submit(fn) ==
    /\ mode = "pool"
    /\ Len(workItems) < Len(args.workload)
    /\ LET item == args.workload[Len(workItems) + 1]
       IN  /\ item.fn = fn
           /\ workItems' = Append(workItems, item)
           /\ queue' = Append(queue, Len(workItems) + 1)
           /\ futures' = Append(futures, [state |-> "PENDING", outcome |-> NoRet])
    /\ UNCHANGED <<mode, callVars, running, pc, logs>>
    /\ UNCHANGED <<settingsVars, hookVars, pluginVars, windowVars, streamVars>>

\* submit_parse(path, strict)
SubmitParse == Submit("parse_json_stream")

\* submit_stream(path)
SubmitStream == Submit("stream_tree_nodes")

\* a free worker takes the oldest queued item and enters its function; a
\* parse call starts with a new, empty log
Start ==
    /\ mode = "pool"
    /\ queue # <<>>
    /\ WorkerFree
    /\ LET i == Head(queue)
       IN  /\ queue' = Tail(queue)
           /\ running' = running \cup {i}
           /\ futures' = [futures EXCEPT ![i].state = "RUNNING"]
           /\ logs' = IF workItems[i].fn = "parse_json_stream"
                      THEN [logs EXCEPT ![LogCell(i)] = <<>>]
                      ELSE logs
    /\ UNCHANGED <<mode, callVars, workItems, pc>>
    /\ UNCHANGED <<settingsVars, hookVars, pluginVars, windowVars, streamVars>>

\* the worker running item i runs its call up to and including the next
\* log.append
Step(i) ==
    /\ mode = "pool"
    /\ i \in running
    /\ LET work == TaskCall(workItems[i], args.installed).work
           j == NextLog(work, pc[i])
       IN  /\ j # 0
           /\ pc' = [pc EXCEPT ![i] = j]
           /\ logs' = [logs EXCEPT ![LogCell(i)] =
                          Append(@, [by |-> i, text |-> work[j]])]
    /\ UNCHANGED <<mode, callVars, workItems, queue, running, futures>>
    /\ UNCHANGED <<settingsVars, hookVars, pluginVars, windowVars, streamVars>>

\* the call of item i runs from its last log.append to its return or raise;
\* the worker resolves the Future and is free again
Finish(i) ==
    /\ mode = "pool"
    /\ i \in running
    /\ LET call == TaskCall(workItems[i], args.installed)
       IN  /\ NextLog(call.work, pc[i]) = 0
           /\ pc' = [pc EXCEPT ![i] = Len(call.work)]
           /\ futures' = [futures EXCEPT
                  ![i] = Resolved(@, workItems[i], call, logs[LogCell(i)])]
    /\ running' = running \ {i}
    /\ UNCHANGED <<mode, callVars, workItems, queue, logs>>
    /\ UNCHANGED <<settingsVars, hookVars, pluginVars, windowVars, streamVars>>

NextPool ==
    \/ SubmitParse
    \/ SubmitStream
    \/ Start
    \/ \E i \in TaskIds : Step(i)
    \/ \E i \in TaskIds : Finish(i)

SpecPool == InitPool /\ [][NextPool]_vars

\* the scheduler lets every worker that can take an item or go on with its
\* call do so eventually
SpecPoolFair ==
    /\ SpecPool
    /\ WF_vars(Start)
    /\ \A i \in TaskIds : WF_vars(Step(i)) /\ WF_vars(Finish(i))

Submitted == 1..Len(workItems)
Queued == {queue[k] : k \in 1..Len(queue)}
ParseDone(i) ==
    workItems[i].fn = "parse_json_stream" /\ futures[i].state = "FINISHED"

\* C12: at most 4 tasks submitted through submit_parse and submit_stream
\* execute at the same time, whatever the number of submissions; the other
\* submissions wait in the queue, in the order of their submission, until a
\* worker is free.
C12_AtMostFourRunning ==
    mode = "pool" =>
        /\ Cardinality(running) <= 4
        /\ running = {i \in Submitted : futures[i].state = "RUNNING"}
        /\ Queued = {i \in Submitted : futures[i].state = "PENDING"}
        /\ \A k \in 1..(Len(queue) - 1) : queue[k] < queue[k + 1]
        /\ \A i \in running, j \in Queued : i < j

\* five tasks were submitted; the fifth waited and runs now that the worker
\* of the first is free
C12_Witness ==
    /\ mode = "pool"
    /\ Len(workItems) = 5
    /\ futures[1].state = "FINISHED"
    /\ running = {2, 3, 4, 5}

\* what one call of parse_json_stream on its own returns or raises, as the
\* outcome of the Future of item i
Alone(i) ==
    LET item == workItems[i]
        call == TaskCall(item, args.installed)
        said == SelectSeq(call.work, LAMBDA w : w \in LogEntries)
    IN  IF call.outcome.kind = "returned"
        THEN [kind |-> "result", data |-> FileValue(item.path),
              log |-> [k \in 1..Len(said) |-> [by |-> i, text |-> said[k]]]]
        ELSE [kind |-> "exception", exc |-> call.outcome]

\* C13: tasks running concurrently in the pool share no mutable state: under
\* every interleaving the (data, log) result, or the exception, of each
\* submitted parse is the one the call gives on its own for its path and
\* strict flag, and the log of a call, while it runs and when it is returned,
\* holds only entries that call wrote.
C13_TasksIsolated ==
    mode = "pool" =>
        \A i \in Submitted :
            /\ ParseDone(i) => futures[i].outcome = Alone(i)
            /\ (i \in running /\ workItems[i].fn = "parse_json_stream") =>
                  \A k \in 1..Len(logs[LogCell(i)]) : logs[LogCell(i)][k].by = i

\* two parse calls ran at the same time: the second has returned its value
\* with a log of two entries while the first, one entry written, still runs
C13_Witness ==
    /\ mode = "pool"
    /\ Len(workItems) = 2
    /\ 1 \in running
    /\ Len(logs[1]) = 1
    /\ ParseDone(2)
    /\ futures[2].outcome.kind = "result"
    /\ Len(futures[2].outcome.log) = 2

\* C14: every future returned by submit_parse eventually resolves, under fair
\* scheduling of the workers, with the parse result or with the exception the
\* parse raised (at any time, a time comes at which every future returned so
\* far is resolved); and a future is resolved as soon as the worker is done
\* with its own task, whatever the tasks submitted before it are doing.
C14_FuturesResolve ==
    /\ [](mode = "pool" =>
            \A i \in Submitted :
                (i \notin running /\ i \notin Queued) => futures[i].state = "FINISHED")
    /\ []<>(\A i \in Submitted :
                /\ futures[i].state = "FINISHED"
                /\ workItems[i].fn = "parse_json_stream" =>
                      futures[i].outcome = Alone(i))

\* the second task raised and its future holds the exception while the first
\* task, submitted before it, is still running
C14_Witness ==
    /\ mode = "pool"
    /\ Len(workItems) = 2
    /\ 1 \in running
    /\ ParseDone(2)
    /\ futures[2].outcome.kind = "exception"

\* C15: parse_json_stream(path, strict=True) on a file holding valid JSON
\* returns the parsed value together with a log whose only entry names the
\* standard json parser; with strict=False it returns the parsed value and
\* the first log entry names the json5 lenient parser, whether or not json5
\* is installed.
C15_ParserLogged ==
    mode = "pool" =>
        \A i \in Submitted :
            (ParseDone(i) /\ workItems[i].path = "a.json") =>
                /\ futures[i].outcome.kind = "result"
                /\ futures[i].outcome.data = FileValue("a.json")
                /\ IF workItems[i].strict
                   THEN futures[i].outcome.log = <<[by |-> i, text |-> "log: json"]>>
                   ELSE /\ futures[i].outcome.log # <<>>
                        /\ futures[i].outcome.log[1].text = "log: json5"

\* a strict and a lenient parse of the valid file have returned, json5 not
\* installed: the lenient one logged json5 and then the fallback
C15_Witness ==
    /\ mode = "pool"
    /\ "json5" \notin args.installed
    /\ Len(workItems) = 2
    /\ ParseDone(1) /\ ParseDone(2)
    /\ workItems[1] = submit_parse("a.json", TRUE)
    /\ workItems[2] = submit_parse("a.json", FALSE)
    /\ Len(futures[1].outcome.log) = 1
    /\ Len(futures[2].outcome.log) = 2

---------------------------------------------------------------------------
(* core/converter.py: base64_encode and base64_decode                      *)
(*                                                                         *)
(* A str is here the sequence of its code points, a bytes object the       *)
(* sequence of its bytes, and Base64 text the sequence of the alphabet     *)
(* indices of its characters (0..63, and 64 for the padding "=").  A       *)
(* sequence that holds -1 stands for a conversion that raised.             *)

\* the longest text encoded
MaxText == 3

Text(cps) == [t |-> "text", cps |-> cps]
ElementsOf(q) == {q[i] : i \in 1..Len(q)}

\* the code points no UTF-8 text holds (lone surrogates)
Surrogates == 55296..57343

\* mutant: code points beyond U+FFFF are written with the three-byte pattern
M_Utf8Bytes_NoFourByte(cp) ==
    IF cp < 128 THEN <<cp>>
    ELSE IF cp < 2048 THEN <<192 + (cp \div 64), 128 + (cp % 64)>>
    ELSE IF cp \in Surrogates THEN <<-1>>
    ELSE <<224 + (cp \div 4096), 128 + ((cp \div 64) % 64), 128 + (cp % 64)>>

\* str.encode("utf-8"), one code point
Utf8Bytes(cp) ==
    IF cp < 128 THEN <<cp>>
    ELSE IF cp < 2048 THEN <<192 + (cp \div 64), 128 + (cp % 64)>>
    ELSE IF cp \in Surrogates THEN <<-1>>
    ELSE IF cp < 65536
    THEN <<224 + (cp \div 4096), 128 + ((cp \div 64) % 64), 128 + (cp % 64)>>
    ELSE <<240 + (cp \div 262144), 128 + ((cp \div 4096) % 64),
           128 + ((cp \div 64) % 64), 128 + (cp % 64)>>

\* bytes.decode("utf-8"): the code points, the shortest encoding only
RECURSIVE Utf8Decode(_)
Utf8Decode(bytes) ==
    IF bytes = <<>> THEN <<>>
    ELSE LET b == bytes[1]
             n == IF b < 128 THEN 1
                  ELSE IF b \in 192..223 THEN 2
                  ELSE IF b \in 224..239 THEN 3
                  ELSE IF b \in 240..247 THEN 4
                  ELSE 0
             low(k) == bytes[k] - 128
             cp == CASE n = 1 -> b
                     [] n = 2 -> ((b - 192) * 64) + low(2)
                     [] n = 3 -> ((b - 224) * 4096) + (low(2) * 64) + low(3)
                     [] n = 4 -> ((b - 240) * 262144) + (low(2) * 4096)
                                     + (low(3) * 64) + low(4)
             least == CASE n = 1 -> 0 [] n = 2 -> 128 [] n = 3 -> 2048
                        [] n = 4 -> 65536
         IN  IF \/ n = 0
                \/ Len(bytes) < n
                \/ \E k \in 2..n : bytes[k] \notin 128..191
             THEN <<-1>>
             ELSE IF cp < least \/ cp \in Surrogates \/ cp > 1114111
             THEN <<-1>>
             ELSE <<cp>> \o Utf8Decode(SubSeq(bytes, n + 1, Len(bytes)))

\* base64.b64encode: three bytes give four characters, the last group is
\* padded with "="
RECURSIVE B64Encode(_)
B64Encode(bytes) ==
    IF bytes = <<>> THEN <<>>
    ELSE LET b1 == bytes[1]
             b2 == IF Len(bytes) > 1 THEN bytes[2] ELSE 0
             b3 == IF Len(bytes) > 2 THEN bytes[3] ELSE 0
             c1 == b1 \div 4
             c2 == ((b1 % 4) * 16) + (b2 \div 16)
             c3 == ((b2 % 16) * 4) + (b3 \div 64)
             c4 == b3 % 64
         IN  IF Len(bytes) = 1 THEN <<c1, c2, 64, 64>>
             ELSE IF Len(bytes) = 2 THEN <<c1, c2, c3, 64>>
             ELSE <<c1, c2, c3, c4>> \o B64Encode(SubSeq(bytes, 4, Len(bytes)))

\* base64.b64decode of padded text: four characters give three bytes; text
\* whose length or padding is wrong raises binascii.Error
RECURSIVE B64Decode(_)
B64Decode(syms) ==
    IF syms = <<>> THEN <<>>
    ELSE IF Len(syms) < 4 \/ syms[1] = 64 \/ syms[2] = 64 THEN <<-1>>
    ELSE LET c1 == syms[1]
             c2 == syms[2]
             c3 == syms[3]
             c4 == syms[4]
             b1 == (c1 * 4) + (c2 \div 16)
             b2 == ((c2 % 16) * 16) + (c3 \div 4)
             b3 == ((c3 % 4) * 64) + c4
         IN  IF c3 = 64
             THEN IF c4 = 64 /\ Len(syms) = 4 THEN <<b1>> ELSE <<-1>>
             ELSE IF c4 = 64
             THEN IF Len(syms) = 4 THEN <<b1, b2>> ELSE <<-1>>
             ELSE <<b1, b2, b3>> \o B64Decode(SubSeq(syms, 5, Len(syms)))

\* base64_encode(text)
base64_encode(text) ==
    LET bytes == ConcatAll([i \in 1..Len(text.cps) |-> Utf8Bytes(text.cps[i])])
    IN  IF -1 \in ElementsOf(bytes) THEN Raise("UnicodeEncodeError")
        ELSE Text(B64Encode(bytes))

\* base64_decode(data)
base64_decode(data) ==
    LET bytes == B64Decode(data.cps)
    IN  IF -1 \in ElementsOf(bytes) THEN Raise("binascii.Error")
        ELSE IF -1 \in ElementsOf(Utf8Decode(bytes))
        THEN Raise("UnicodeDecodeError")
        ELSE Text(Utf8Decode(bytes))

\* "A", "é", "中", an emoji beyond U+FFFF, and a lone surrogate as
\* json.loads('"\ud800"') returns it
CodePoints == {65, 233, 20013, 128512, 55296}

InitB64 ==
    /\ mode = "base64"
    /\ args \in [text : {Text(q) : q \in SeqsUpTo(CodePoints, MaxText)}]
    /\ ret = NoRet
    /\ ObjectsIdle

\* encoded = base64_encode(text)
CallBase64Encode ==
    /\ mode = "base64"
    /\ ret = NoRet
    /\ ret' = [t |-> "encoded", out |-> base64_encode(args.text)]
    /\ UNCHANGED <<mode, args, objectVars>>

\* decoded = base64_decode(encoded)
CallBase64Decode ==
    /\ mode = "base64"
    /\ ret.t = "encoded"
    /\ ~Failed(ret.out)
    /\ ret' = [t |-> "decoded", out |-> base64_decode(ret.out)]
    /\ UNCHANGED <<mode, args, objectVars>>

NextB64 == CallBase64Encode \/ CallBase64Decode

SpecB64 == InitB64 /\ [][NextB64]_vars

EncodeCalled == mode = "base64" /\ ret.t = "encoded"
DecodeCalled == mode = "base64" /\ ret.t = "decoded"
Encodable(text) == ElementsOf(text.cps) \cap Surrogates = {}

\* C16 (as claimed): for every text t, base64_decode(base64_encode(t))
\* equals t: base64_encode returns for every text, and decoding what it
\* returned gives the text back.
C16_RoundTrip ==
    /\ EncodeCalled => ~Failed(ret.out)
    /\ DecodeCalled => ret.out = args.text

\* C16 (amended): for every text t that holds no surrogate code point,
\* base64_decode(base64_encode(t)) equals t; for a text that holds one,
\* base64_encode raises UnicodeEncodeError.
C16_RoundTripEncodable ==
    /\ EncodeCalled =>
          IF Encodable(args.text) THEN ~Failed(ret.out)
          ELSE ret.out = Raise("UnicodeEncodeError")
    /\ DecodeCalled => ret.out = args.text

\* a text of one-, two- and four-byte characters came back
C16_Witness ==
    /\ DecodeCalled
    /\ args.text = Text(<<65, 233, 128512>>)
    /\ ret.out = args.text

---------------------------------------------------------------------------
(* json_parser.py: JsonWorkspace._format_scalar and _detect_scalar_type    *)

\* the largest absolute value of the integers formatted
MaxInt == 11

\* str(n) for an int
PyIntStr(n) == IF n < 0 THEN <<"-">> \o IntToStr(0 - n) ELSE IntToStr(n)

\* json.dumps(s, ensure_ascii=False) for a str: quoted, with the quote, the
\* backslash and the newline escaped
JsonDumpsStr(s) ==
    LET esc(c) == CASE c = "\"" -> <<"\\", "\"">>
                    [] c = "\\" -> <<"\\", "\\">>
                    [] c = "\n" -> <<"\\", "n">>
                    [] OTHER -> <<c>>
    IN  <<"\"">> \o ConcatAll([i \in 1..Len(s) |-> esc(s[i])]) \o <<"\"">>

\* mutant: the int test comes before the bool test, and bool is an int:
\* str(True) is "True"
M__format_scalar_IntFirst(value) ==
    CASE value.t = "null" -> <<"n", "u", "l", "l">>
      [] value.t = "bool" -> IF value.b THEN <<"T", "r", "u", "e">>
                             ELSE <<"F", "a", "l", "s", "e">>
      [] value.t = "num" -> PyIntStr(value.n)
      [] OTHER -> JsonDumpsStr(value.s)

\* _format_scalar(value)
_format_scalar(value) ==
    CASE value.t = "null" -> <<"n", "u", "l", "l">>
      [] value.t = "bool" -> IF value.b THEN <<"t", "r", "u", "e">>
                             ELSE <<"f", "a", "l", "s", "e">>
      [] value.t = "num" -> PyIntStr(value.n)
      [] OTHER -> JsonDumpsStr(value.s)

\* _detect_scalar_type(value)
_detect_scalar_type(value) ==
    CASE value.t = "null" -> "null"
      [] value.t = "bool" -> "bool"
      [] value.t = "num" -> "number"
      [] OTHER -> "string"

ScalarChars == {"n", "1", "\"", "\\", "\n"}

ScalarValues ==
    {JNull, JBool(TRUE), JBool(FALSE)}
        \cup {JNum(n) : n \in (0 - MaxInt)..MaxInt}
        \cup {JStr(q) : q \in SeqsUpTo(ScalarChars, MaxLen)}

InitScalar ==
    /\ mode = "scalar"
    /\ args \in [value : ScalarValues]
    /\ ret = NoRet
    /\ ObjectsIdle

\* text = self._format_scalar(value)
CallFormatScalar ==
    /\ mode = "scalar"
    /\ ret' = [t |-> "formatted", text |-> _format_scalar(args.value)]
    /\ UNCHANGED <<mode, args, objectVars>>

\* type_name = self._detect_scalar_type(value)
CallDetectScalarType ==
    /\ mode = "scalar"
    /\ ret' = [t |-> "type", name |-> _detect_scalar_type(args.value)]
    /\ UNCHANGED <<mode, args, objectVars>>

NextScalar == CallFormatScalar \/ CallDetectScalarType

SpecScalar == InitScalar /\ [][NextScalar]_vars

\* the inside of a JSON string literal, unescaped; <<"bad">> when it is not
\* the inside of one
RECURSIVE JsonUnescape(_)
JsonUnescape(q) ==
    IF q = <<>> THEN <<>>
    ELSE IF q[1] \in {"\"", "\n"} THEN <<"bad">>
    ELSE IF q[1] # "\\" THEN <<q[1]>> \o JsonUnescape(Tail(q))
    ELSE IF Len(q) < 2 \/ q[2] \notin {"\"", "\\", "n"} THEN <<"bad">>
    ELSE <<IF q[2] = "n" THEN "\n" ELSE q[2]>> \o JsonUnescape(SubSeq(q, 3, Len(q)))

\* the value a JSON parser reads from a text that is one scalar; NoRet when
\* the text is not JSON
JsonScalar(text) ==
    LET digits == IF text # <<>> /\ text[1] = "-" THEN Tail(text) ELSE text
        inner == SubSeq(text, 2, Len(text) - 1)
    IN  CASE text = <<"n", "u", "l", "l">> -> JNull
          [] text = <<"t", "r", "u", "e">> -> JBool(TRUE)
          [] text = <<"f", "a", "l", "s", "e">> -> JBool(FALSE)
          [] IsDigit(digits) /\ (Len(digits) = 1 \/ digits[1] # "0") ->
                JNum(IF digits = text THEN StrToInt(digits)
                     ELSE 0 - StrToInt(digits))
          [] /\ Len(text) >= 2
             /\ text[1] = "\"" /\ text[Len(text)] = "\""
             /\ "bad" \notin ElementsOf(JsonUnescape(inner)) ->
                JStr(JsonUnescape(inner))
          [] OTHER -> NoRet

\* C17: the scalar formatting helper round-trips: for every scalar v that is
\* null, a boolean, an integer or a string, parsing the text
\* _format_scalar(v) as JSON gives back v; booleans are written as true and
\* false, never as 1 and 0, and _detect_scalar_type classifies a boolean as
\* 'bool', never as 'number'.
C17_ScalarRoundTrip ==
    mode = "scalar" =>
        /\ ret.t = "formatted" =>
              /\ JsonScalar(ret.text) = args.value
              /\ args.value.t = "bool" =>
                    ret.text = (IF args.value.b THEN <<"t", "r", "u", "e">>
                                ELSE <<"f", "a", "l", "s", "e">>)
        /\ ret.t = "type" =>
              (args.value.t = "bool" <=> ret.name = "bool")

\* True was formatted: the text is true, which a JSON parser reads as true
C17_Witness ==
    /\ mode = "scalar"
    /\ args.value = JBool(TRUE)
    /\ ret.t = "formatted"
    /\ ret.text = <<"t", "r", "u", "e">>
    /\ JsonScalar(ret.text) = JBool(TRUE)

---------------------------------------------------------------------------
(* app/exceptions.py: install_global_exception_hook                        *)

\* how many uncaught exceptions a behaviour holds at most
MaxUncaught == 3

\* the exception types raised; UserAbort is a subclass of KeyboardInterrupt
ExcTypes == {"ValueError", "RuntimeError", "KeyboardInterrupt", "UserAbort"}

\* issubclass(exc_type, KeyboardInterrupt)
IsKeyboardInterrupt(exc_type) == exc_type \in {"KeyboardInterrupt", "UserAbort"}

\* mutant: the KeyboardInterrupt test is missing
M_handle_exception_NoTest(exc_type) == <<"log", "dialog">>

\* handle_exception(exc_type, exc_value, exc_traceback): what it does, in
\* order: "default" is the call of sys.__excepthook__, "log" the logger.error
\* of the formatted traceback, "dialog" _show_exception_dialog
handle_exception(exc_type) ==
    IF IsKeyboardInterrupt(exc_type) THEN <<"default">>
    ELSE <<"log", "dialog">>

\* the number of uncaught exceptions so far
Uncaught == IF effects = <<>> THEN 0 ELSE effects[Len(effects)].n

InitHook ==
    /\ mode = "hook"
    /\ args = NoRet
    /\ ret = NoRet
    /\ HookIdle
    /\ SettingsIdle /\ PoolIdle /\ PluginsIdle /\ WindowIdle /\ StreamIdle

\* install_global_exception_hook(): sys.excepthook = handle_exception
InstallHook ==
    /\ mode = "hook"
    /\ handling.at = "idle"
    /\ excepthook' = "handle_exception"
    /\ UNCHANGED <<mode, callVars, handling, effects>>
    /\ UNCHANGED <<settingsVars, poolVars, pluginVars, windowVars, streamVars>>

\* an exception nothing caught: the interpreter calls sys.excepthook, which
\* runs up to its return or, with the dialog shown, up to the wait in
\* box.exec()
UncaughtException ==
    /\ mode = "hook"
    /\ handling.at = "idle"
    /\ Uncaught < MaxUncaught
    /\ \E exc_type \in ExcTypes :
         LET does == IF excepthook = "handle_exception"
                     THEN handle_exception(exc_type)
                     ELSE <<"default">>
         IN  /\ effects' = effects \o
                    [k \in 1..Len(does) |->
                        [n |-> Uncaught + 1, exc |-> exc_type,
                         hook |-> excepthook, what |-> does[k]]]
             /\ handling' = [at |-> IF does[Len(does)] = "dialog"
                                    THEN "dialog" ELSE "idle"]
    /\ UNCHANGED <<mode, callVars, excepthook>>
    /\ UNCHANGED <<settingsVars, poolVars, pluginVars, windowVars, streamVars>>

\* the user closes the dialog: box.exec() and handle_exception return
CloseDialog ==
    /\ mode = "hook"
    /\ handling.at = "dialog"
    /\ handling' = [at |-> "idle"]
    /\ UNCHANGED <<mode, callVars, excepthook, effects>>
    /\ UNCHANGED <<settingsVars, poolVars, pluginVars, windowVars, streamVars>>

NextHook == InstallHook \/ UncaughtException \/ CloseDialog

SpecHook == InitHook /\ [][NextHook]_vars

\* what was done for the n-th uncaught exception, in order
DoneFor(n) ==
    LET mine == SelectSeq(effects, LAMBDA x : x.n = n)
    IN  [k \in 1..Len(mine) |-> mine[k].what]

---------------------------------------------------------------------------
(* plugins/__init__.py: PluginManager                                      *)

\* how many plugin instances a behaviour creates at most
MaxInstances == 2

\* how many plugin.json files the plugins directory holds at most
MaxPlugins == 2

None == [t |-> "None"]

\* the PluginInfo discover builds from a descriptor:
\* PluginInfo(meta["name"], meta["module"], meta.get("enabled", True))
InfoOf(meta) ==
    [name |-> MapGet(meta, "name"), module |-> MapGet(meta, "module"),
     enabled |-> IF MapHas(meta, "enabled") THEN MapGet(meta, "enabled")
                 ELSE JBool(TRUE)]

\* mutant: the test of info.enabled is missing
M_Skips_Never(info) == FALSE

\* if not info.enabled
Skips(info) == ~info.enabled.b

\* the descriptors: "sample" is a module that can be imported, "gone" is not
PluginNames == {"p", "q"}
Importable == {"sample"}
Metas ==
    {JMap(<< <<"name", n>>, <<"module", m>> >> \o e) :
        n \in PluginNames, m \in {"sample", "gone"},
        e \in {<<>>, << <<"enabled", JBool(TRUE)>> >>,
               << <<"enabled", JBool(FALSE)>> >>}}

\* the instances created so far
Instances == Cardinality({k \in 1..Len(calls) : calls[k].op = "activate"})

\* PluginManager(plugins_dir); args.listing is what glob("*/plugin.json")
\* yields, in its order
InitPlugins ==
    /\ mode = "plugins"
    /\ args \in [listing : SeqsUpTo(Metas, MaxPlugins)]
    /\ ret = NoRet
    /\ PluginsIdle
    /\ SettingsIdle /\ PoolIdle /\ HookIdle /\ WindowIdle /\ StreamIdle

\* infos = discover()
DiscoverPlugins ==
    /\ mode = "plugins"
    /\ ret' = [t |-> "discover",
               infos |-> [k \in 1..Len(args.listing) |-> InfoOf(args.listing[k])]]
    /\ UNCHANGED <<mode, args, pluginVars>>
    /\ UNCHANGED <<settingsVars, poolVars, hookVars, windowVars, streamVars>>

\* plugin = load(info), for an info discover returns
LoadPlugin ==
    /\ mode = "plugins"
    /\ \E k \in 1..Len(args.listing) :
         LET info == InfoOf(args.listing[k])
             plugin == [t |-> "plugin", id |-> Instances + 1,
                        module |-> info.module]
         IN  IF Skips(info)
             THEN /\ ret' = [t |-> "load", info |-> info, value |-> None]
                  /\ UNCHANGED pluginVars
             ELSE IF info.module \notin Importable
             THEN /\ ret' = [t |-> "load", info |-> info,
                             value |-> Raise("ModuleNotFoundError")]
                  /\ UNCHANGED pluginVars
             ELSE /\ Instances < MaxInstances
                  /\ sys_modules' = sys_modules \cup {info.module}
                  /\ calls' = Append(calls, [op |-> "activate", plugin |-> plugin])
                  /\ registry' = MapSet(registry, info.name, plugin)
                  /\ ret' = [t |-> "load", info |-> info, value |-> plugin]
    /\ UNCHANGED <<mode, args>>
    /\ UNCHANGED <<settingsVars, poolVars, hookVars, windowVars, streamVars>>

\* unload(name): registry.pop(name, None), and deactivate() on what it held
UnloadPlugin ==
    /\ mode = "plugins"
    /\ \E name \in PluginNames :
         /\ ret' = [t |-> "unload", name |-> name]
         /\ registry' = JMap(SelectSeq(registry.pairs, LAMBDA pr : pr[1] # name))
         /\ calls' = IF MapHas(registry, name)
                     THEN Append(calls, [op |-> "deactivate",
                                         plugin |-> MapGet(registry, name)])
                     ELSE calls
    /\ UNCHANGED <<mode, args, sys_modules>>
    /\ UNCHANGED <<settingsVars, poolVars, hookVars, windowVars, streamVars>>

NextPlugins == DiscoverPlugins \/ LoadPlugin \/ UnloadPlugin

SpecPlugins == InitPlugins /\ [][NextPlugins]_vars

\* C19: a plugin whose descriptor has enabled = false is never activated:
\* load returns None for it without importing its module, without calling
\* activate and without changing the registry; a descriptor that has no
\* 'enabled' field is treated as enabled: discover gives it enabled = True
\* and load does not return None for it.
C19_DisabledNeverLoaded ==
    /\ [][(mode = "plugins" /\ ret'.t = "load") =>
             IF ret'.info.enabled = JBool(FALSE)
             THEN /\ ret'.value = None
                  /\ UNCHANGED <<registry, sys_modules, calls>>
             ELSE ret'.value # None]_vars
    /\ [](mode = "plugins" /\ ret.t = "discover" =>
             \A k \in 1..Len(args.listing) :
                 /\ MapHas(args.listing[k], "enabled") =>
                       ret.infos[k].enabled = MapGet(args.listing[k], "enabled")
                 /\ ~MapHas(args.listing[k], "enabled") =>
                       ret.infos[k].enabled = JBool(TRUE))

\* plugin p, whose descriptor has no 'enabled' field, is loaded and active;
\* the load of the disabled plugin q has just returned None
C19_Witness ==
    /\ mode = "plugins"
    /\ Len(args.listing) = 2
    /\ ~MapHas(args.listing[1], "enabled")
    /\ MapHas(args.listing[2], "enabled")
    /\ MapGet(args.listing[2], "enabled") = JBool(FALSE)
    /\ ret.t = "load"
    /\ ret.info = InfoOf(args.listing[2])
    /\ ret.value = None
    /\ MapKeys(registry) = {"p"}
    /\ Len(calls) = 1
    /\ sys_modules = {"sample"}

---------------------------------------------------------------------------
(* json_parser.py: JsonWorkspace, the tree and its filter                  *)

\* str.lower() for the characters the model uses
Lower(c) == CASE c = "A" -> "a" [] c = "B" -> "b" [] OTHER -> c
LowerStr(s) == [i \in 1..Len(s) |-> Lower(s[i])]

\* needle in hay, for two strs
Contains(hay, needle) ==
    \E i \in 0..(Len(hay) - Len(needle)) :
        SubSeq(hay, i + 1, i + Len(needle)) = needle

\* str.strip()
RECURSIVE Strip(_)
Strip(s) ==
    IF s # <<>> /\ Head(s) = " " THEN Strip(Tail(s))
    ELSE IF s # <<>> /\ s[Len(s)] = " " THEN Strip(SubSeq(s, 1, Len(s) - 1))
    ELSE s

\* the sum of a sequence of numbers
RECURSIVE SumSeq(_)
SumSeq(ns) == IF ns = <<>> THEN 0 ELSE Head(ns) + SumSeq(Tail(ns))

\* _describe_value(value): f"<u5BF9><u8C61><uFF08>{len(value)} <u9879><uFF09>"
\* for a dict, f"<u6570><u7EC4><uFF08>{len(value)} <u9879><uFF09>" for a
\* list, _format_scalar(value) for a scalar
_describe_value(value) ==
    IF IsMap(value)
    THEN <<"u5BF9", "u8C61", "uFF08">> \o IntToStr(Len(value.pairs))
             \o <<" ", "u9879", "uFF09">>
    ELSE IF IsList(value)
    THEN <<"u6570", "u7EC4", "uFF08">> \o IntToStr(Len(value.items))
             \o <<" ", "u9879", "uFF09">>
    ELSE _format_scalar(value)

\* f"[{index}]"
IndexText(index) == <<"[">> \o IntToStr(index) \o <<"]">>

\* _create_tree_item(key, value, path): a QTreeWidgetItem with the columns
\* str(key) and the described value, its children in the value's order, and
\* the path, the value and the type name as its data
RECURSIVE _create_tree_item(_, _, _)
_create_tree_item(key, value, path) ==
    LET children ==
            IF IsMap(value)
            THEN [i \in 1..Len(value.pairs) |->
                    LET child_key == value.pairs[i][1]
                    IN  _create_tree_item(
                            child_key, value.pairs[i][2],
                            IF path # <<>> THEN path \o <<".">> \o child_key
                            ELSE child_key)]
            ELSE IF IsList(value)
            THEN [i \in 1..Len(value.items) |->
                    _create_tree_item(
                        IndexText(i - 1), value.items[i],
                        IF path # <<>> THEN path \o IndexText(i - 1)
                        ELSE IndexText(i - 1))]
            ELSE <<>>
    IN  [text0 |-> key,
         text1 |-> _describe_value(value),
         children |-> children,
         path |-> path,
         value |-> value,
         type_name |-> IF IsMap(value) THEN "object"
                       ELSE IF IsList(value) THEN "array"
                       ELSE _detect_scalar_type(value),
         hidden |-> FALSE,
         expanded |-> FALSE]

\* QTreeWidget.expandToDepth(depth) on a list of sibling items
RECURSIVE ExpandToDepth(_, _)
ExpandToDepth(items, depth) ==
    [i \in 1..Len(items) |->
        [items[i] EXCEPT
            !.expanded = items[i].children # <<>>,
            !.children = IF depth > 0 THEN ExpandToDepth(@, depth - 1) ELSE @]]

\* _show_item_recursive(item)
RECURSIVE _show_item_recursive(_)
_show_item_recursive(item) ==
    [item EXCEPT
        !.hidden = FALSE,
        !.expanded = item.children # <<>>,
        !.children = [i \in 1..Len(@) |-> _show_item_recursive(@[i])]]

\* _count_visible_items._count(item)
RECURSIVE _count(_)
_count(item) ==
    IF item.hidden THEN 0
    ELSE 1 + SumSeq([i \in 1..Len(item.children) |-> _count(item.children[i])])

\* _reset_filter(): every item shown, and the count of the visible items in
\* the status bar
_reset_filter(ws) ==
    LET shown == [i \in 1..Len(ws._tree) |-> _show_item_recursive(ws._tree[i])]
    IN  [ws |-> [ws EXCEPT !._tree = shown],
         status |-> [msg |-> "visible",
                     n |-> SumSeq([i \in 1..Len(shown) |-> _count(shown[i])])]]

\* _apply_filter._filter(item): the item after the pass, whether it is
\* visible, and by how much total_match grew
RECURSIVE _filter(_, _)
_filter(item, keyword) ==
    LET match == \/ Contains(LowerStr(item.text0), LowerStr(keyword))
                 \/ Contains(LowerStr(item.text1), LowerStr(keyword))
        kids == [i \in 1..Len(item.children) |-> _filter(item.children[i], keyword)]
        child_match == \E i \in 1..Len(kids) : kids[i].visible
        visible == match \/ child_match
    IN  [item |-> [item EXCEPT
                      !.children = [i \in 1..Len(kids) |-> kids[i].item],
                      !.hidden = ~visible,
                      !.expanded = IF item.children # <<>> /\ visible
                                   THEN TRUE ELSE @],
         visible |-> visible,
         total_match |-> SumSeq([i \in 1..Len(kids) |-> kids[i].total_match])
                            + (IF visible THEN 1 ELSE 0)]

\* _apply_filter(keyword)
_apply_filter(ws, keyword) ==
    LET stripped == Strip(keyword)
        tops == [i \in 1..Len(ws._tree) |-> _filter(ws._tree[i], stripped)]
    IN  IF stripped = <<>> THEN _reset_filter(ws)
        ELSE [ws |-> [ws EXCEPT !._tree = [i \in 1..Len(tops) |-> tops[i].item]],
              status |-> [msg |-> "found",
                          n |-> SumSeq([i \in 1..Len(tops) |-> tops[i].total_match])]]

\* _summarize_data(data)
_summarize_data(data) ==
    IF IsMap(data) THEN [msg |-> "root object", n |-> Len(data.pairs)]
    ELSE IF IsList(data) THEN [msg |-> "root array", n |-> Len(data.items)]
    ELSE [msg |-> "root scalar"]

\* _populate_tree(data)
_populate_tree(ws, data) ==
    LET tops == IF IsMap(data)
                THEN [i \in 1..Len(data.pairs) |->
                        _create_tree_item(data.pairs[i][1], data.pairs[i][2],
                                          data.pairs[i][1])]
                ELSE IF IsList(data)
                THEN [i \in 1..Len(data.items) |->
                        _create_tree_item(IndexText(i - 1), data.items[i],
                                          IndexText(i - 1))]
                ELSE << _create_tree_item(<<"u503C">>, data, <<"u503C">>) >>
        fresh == [ws EXCEPT !._tree = ExpandToDepth(tops, 1),
                            !.selected = <<>>,
                            !._path_display = <<>>,
                            !._copy_path_button = FALSE,
                            !._copy_value_button = FALSE,
                            !._value_preview = PreviewHint]
        keyword == Strip(fresh._filter_input)
        filtered == IF keyword # <<>> THEN _apply_filter(fresh, keyword)
                    ELSE _reset_filter(fresh)
    IN  [ws |-> filtered.ws, status |-> _summarize_data(data)]

\* _show_error(message): the message box, then the message in the status bar
_show_error(ws, message) == [ws |-> ws, status |-> [msg |-> "error", about |-> message]]

\* parse_json()
parse_json(ws) ==
    IF ws._editor.t = "empty" THEN _show_error(ws, "no text")
    ELSE IF ws._editor.t # "json" THEN _show_error(ws, "JSONDecodeError")
    ELSE _populate_tree(ws, ws._editor.doc)

\* clear_all(); the window's slot sets the tab text the signal carries
clear_all(ws) ==
    [ws |-> [ws EXCEPT !._editor = NoText,
                       !._tree = <<>>,
                       !.selected = <<>>,
                       !._filter_input = <<>>,
                       !._path_display = <<>>,
                       !._copy_path_button = FALSE,
                       !._copy_value_button = FALSE,
                       !._value_preview = PreviewHint,
                       !.title = <<"u65B0", "u6570", "u636E", "u9875">>],
     status |-> [msg |-> "cleared"]]

\* the item of a tree at a path of child positions
RECURSIVE ItemAt(_, _)
ItemAt(items, at) ==
    IF Len(at) = 1 THEN items[at[1]]
    ELSE ItemAt(items[at[1]].children, Tail(at))

\* the positions of the items that are not hidden, nor under a hidden item
RECURSIVE ShownPositions(_)
ShownPositions(items) ==
    UNION {IF items[i].hidden THEN {}
           ELSE {<<i>>} \cup {<<i>> \o q : q \in ShownPositions(items[i].children)}
           : i \in 1..Len(items)}

\* _on_tree_selection_change() with the item at a position selected
_on_tree_selection_change(ws, at) ==
    LET item == ItemAt(ws._tree, at)
    IN  [ws EXCEPT !.selected = at,
                   !._path_display = item.path,
                   !._copy_path_button = TRUE,
                   !._copy_value_button = TRUE,
                   !._value_preview = [t |-> "value", of |-> item.value]]

---------------------------------------------------------------------------
(* json_parser.py: JsonParserWindow and what its user does                 *)

\* the most tabs the window is given
MaxTabs == 2

\* QTabWidget.removeTab(index)
RemoveTab(ts, index) == SubSeq(ts, 1, index - 1) \o SubSeq(ts, index + 1, Len(ts))

\* the current index QTabWidget keeps when the tab at index goes: the tab
\* to the right of a removed current tab becomes current, the one to the
\* left when there is none
CurrentAfterRemove(ts, current, index) ==
    IF index < current THEN current - 1
    ELSE IF index = current /\ current = Len(ts) THEN current - 1
    ELSE current

\* mutant: the last tab is removed like any other
M__close_tab_AlwaysRemoves(ts, current, st, index) ==
    [tabs |-> RemoveTab(ts, index),
     currentIndex |-> CurrentAfterRemove(ts, current, index),
     status |-> st]

\* _close_tab(index)
_close_tab(ts, current, st, index) ==
    IF Len(ts) = 1
    THEN LET cleared == clear_all(ts[index])
         IN  [tabs |-> [ts EXCEPT ![index] = cleared.ws],
              currentIndex |-> current,
              status |-> cleared.status]
    ELSE [tabs |-> RemoveTab(ts, index),
          currentIndex |-> CurrentAfterRemove(ts, current, index),
          status |-> st]

\* the documents, editor texts and filter texts the user works with: a few
\* nested documents where the filter is exercised, one where the tabs are
FilterDocs ==
    {JMap(<< <<<<"a">>, JMap(<< <<<<"b">>, JNum(1)>> >>)>> >>),
     JMap(<< <<<<"a", "b">>, JList(<<JStr(<<"B">>), JNum(1)>>)>>,
             <<<<"c">>, JNull>> >>),
     JList(<<JMap(<< <<<<"B">>, JStr(<<"a">>)>> >>), JBool(TRUE)>>),
     JStr(<<"a", "B">>)}
TabDocs == {JMap(<< <<<<"a">>, JNum(1)>> >>)}
Docs == IF mode = "tabs" THEN TabDocs ELSE FilterDocs

EditorTexts ==
    {[t |-> "json", doc |-> d] : d \in Docs}
        \cup (IF mode = "tabs" THEN {} ELSE {NoText, [t |-> "not json"]})

FilterTexts ==
    IF mode = "tabs" THEN {<<>>, <<"a">>}
    ELSE {<<>>, <<" ">>, <<"b">>, <<"B", " ">>, <<"a">>, <<"1">>, <<"c">>}

InitWindow ==
    /\ args = [t |-> "JsonParserWindow"]
    /\ ret = NoRet
    /\ WindowIdle
    /\ SettingsIdle /\ PoolIdle /\ HookIdle /\ PluginsIdle /\ StreamIdle

InitFilter == mode = "filter" /\ InitWindow
InitTabs == mode = "tabs" /\ InitWindow

\* the user replaces the text of the current workspace's editor
EditText ==
    \E text \in EditorTexts :
        /\ text # tabs[currentIndex]._editor
        /\ tabs' = [tabs EXCEPT ![currentIndex]._editor = text]
        /\ args' = [t |-> "edit"]
        /\ UNCHANGED <<mode, ret, currentIndex, status>>
        /\ UNCHANGED <<settingsVars, poolVars, hookVars, pluginVars, streamVars>>

\* _parse_button.clicked: parse_json()
ParseJson ==
    LET done == parse_json(tabs[currentIndex])
    IN  /\ tabs' = [tabs EXCEPT ![currentIndex] = done.ws]
        /\ status' = done.status
        /\ args' = [t |-> "parse_json"]
        /\ UNCHANGED <<mode, ret, currentIndex>>
        /\ UNCHANGED <<settingsVars, poolVars, hookVars, pluginVars, streamVars>>

\* _filter_input.textChanged: the user changes the filter text, and
\* _apply_filter(text) runs
FilterTextChanged ==
    \E text \in FilterTexts :
        LET typed == [tabs[currentIndex] EXCEPT !._filter_input = text]
            done == _apply_filter(typed, text)
        IN  /\ text # tabs[currentIndex]._filter_input
            /\ tabs' = [tabs EXCEPT ![currentIndex] = done.ws]
            /\ status' = done.status
            /\ args' = [t |-> "_apply_filter", keyword |-> text]
            /\ UNCHANGED <<mode, ret, currentIndex>>
            /\ UNCHANGED <<settingsVars, poolVars, hookVars, pluginVars, streamVars>>

\* _tree.itemSelectionChanged: the user selects an item that is shown
TreeItemSelected ==
    \E at \in ShownPositions(tabs[currentIndex]._tree) :
        /\ at # tabs[currentIndex].selected
        /\ tabs' = [tabs EXCEPT
                       ![currentIndex] = _on_tree_selection_change(@, at)]
        /\ args' = [t |-> "_on_tree_selection_change"]
        /\ UNCHANGED <<mode, ret, currentIndex, status>>
        /\ UNCHANGED <<settingsVars, poolVars, hookVars, pluginVars, streamVars>>

\* _clear_button.clicked: clear_all()
ClearAll ==
    LET done == clear_all(tabs[currentIndex])
    IN  /\ tabs' = [tabs EXCEPT ![currentIndex] = done.ws]
        /\ status' = done.status
        /\ args' = [t |-> "clear_all"]
        /\ UNCHANGED <<mode, ret, currentIndex>>
        /\ UNCHANGED <<settingsVars, poolVars, hookVars, pluginVars, streamVars>>

\* the time showMessage gave the message is over
StatusExpires ==
    /\ status # [msg |-> ""]
    /\ status' = [msg |-> ""]
    /\ args' = [t |-> "timeout"]
    /\ UNCHANGED <<mode, ret, tabs, currentIndex>>
    /\ UNCHANGED <<settingsVars, poolVars, hookVars, pluginVars, streamVars>>

\* _new_tab_button.clicked: _create_new_tab(), with its _add_workspace(title)
CreateNewTab ==
    /\ Len(tabs) < MaxTabs
    /\ tabs' = Append(tabs, JsonWorkspace(PageTitle(Len(tabs) + 1)))
    /\ currentIndex' = Len(tabs) + 1
    /\ args' = [t |-> "_create_new_tab"]
    /\ UNCHANGED <<mode, ret, status>>
    /\ UNCHANGED <<settingsVars, poolVars, hookVars, pluginVars, streamVars>>

\* _tab_bar.tabCloseRequested(index): _close_tab(index)
CloseTab ==
    \E index \in 1..Len(tabs) :
        LET done == _close_tab(tabs, currentIndex, status, index)
        IN  /\ tabs' = done.tabs
            /\ currentIndex' = done.currentIndex
            /\ status' = done.status
            /\ args' = [t |-> "_close_tab", index |-> index]
            /\ UNCHANGED <<mode, ret>>
            /\ UNCHANGED <<settingsVars, poolVars, hookVars, pluginVars, streamVars>>

\* the user goes to another tab
SelectTab ==
    \E index \in 1..Len(tabs) :
        /\ index # currentIndex
        /\ currentIndex' = index
        /\ args' = [t |-> "setCurrentIndex"]
        /\ UNCHANGED <<mode, ret, tabs, status>>
        /\ UNCHANGED <<settingsVars, poolVars, hookVars, pluginVars, streamVars>>

NextFilter ==
    \/ EditText
    \/ ParseJson
    \/ FilterTextChanged
    \/ TreeItemSelected
    \/ ClearAll
    \/ StatusExpires

SpecFilter == InitFilter /\ [][NextFilter]_vars

NextTabs ==
    \/ EditText
    \/ ParseJson
    \/ FilterTextChanged
    \/ TreeItemSelected
    \/ CreateNewTab
    \/ CloseTab
    \/ SelectTab

SpecTabs == InitTabs /\ [][NextTabs]_vars

\* the positions of all the items of a tree
RECURSIVE AllPositions(_)
AllPositions(items) ==
    UNION {{<<i>>} \cup {<<i>> \o q : q \in AllPositions(items[i].children)}
           : i \in 1..Len(items)}

\* text contains keyword, letter case aside
ContainsIgnoringCase(text, keyword) ==
    \E i \in 0..(Len(text) - Len(keyword)) :
        \A j \in 1..Len(keyword) : Lower(text[i + j]) = Lower(keyword[j])

\* the items whose key text or value text contains the keyword
MatchingNodes(items, keyword) ==
    {at \in AllPositions(items) :
        \/ ContainsIgnoringCase(ItemAt(items, at).text0, keyword)
        \/ ContainsIgnoringCase(ItemAt(items, at).text1, keyword)}

\* C21: after _apply_filter has run with a keyword that is not empty, the
\* number in the status message (found N matching nodes) is the number of
\* tree nodes whose key text or value text contains the keyword, compared
\* without regard to letter case.
C21_FilterCountsMatches ==
    (mode = "filter" /\ args.t = "_apply_filter" /\ Strip(args.keyword) # <<>>) =>
        status = [msg |-> "found",
                  n |-> Cardinality(MatchingNodes(tabs[currentIndex]._tree,
                                                  Strip(args.keyword)))]

---------------------------------------------------------------------------
(* core/parser.py: the loop of the generator stream_tree_nodes             *)

\* ijson.parse(fh) on the text of a document: its events in document order,
\* each with the value the loop reads (the key of a map_key, the scalar of a
\* scalar event); the prefix, which the loop does not read, is left out
RECURSIVE IjsonEvents(_)
IjsonEvents(x) ==
    IF IsMap(x)
    THEN <<[event |-> "start_map"]>>
            \o ConcatAll([i \in 1..Len(x.pairs) |->
                    <<[event |-> "map_key", key |-> x.pairs[i][1]]>>
                        \o IjsonEvents(x.pairs[i][2])])
            \o <<[event |-> "end_map"]>>
    ELSE IF IsList(x)
    THEN <<[event |-> "start_array"]>>
            \o ConcatAll([i \in 1..Len(x.items) |-> IjsonEvents(x.items[i])])
            \o <<[event |-> "end_array"]>>
    ELSE <<[event |-> CASE x.t = "null" -> "null"
                        [] x.t = "bool" -> "boolean"
                        [] x.t = "num" -> "number"
                        [] OTHER -> "string",
            value |-> x]>>

\* ".".join(filter(None, stack))
PathStr(stk) == JoinChain(SelectSeq(stk, LAMBDA q : q # <<>>), <<".">>)

\* the stack after one turn of the loop
StackAfter(stk, ev) ==
    IF ev.event = "map_key"
    THEN (IF stk # <<>> THEN [stk EXCEPT ![Len(stk)] = ev.key] ELSE stk)
    ELSE IF ev.event \in {"start_map", "start_array"}
    THEN Append(stk, <<>>)
    ELSE IF ev.event \in {"end_map", "end_array"}
    THEN (IF stk # <<>> THEN SubSeq(stk, 1, Len(stk) - 1) ELSE stk)
    ELSE stk

\* what one turn of the loop yields, if anything
YieldOf(stk, ev) ==
    IF ev.event \in {"string", "number", "boolean", "null"}
    THEN << <<PathStr(stk), ev.value>> >>
    ELSE <<>>

StreamScalars == {JNull, JBool(TRUE), JNum(1), JStr(<<"a">>)}
StreamKeys == {<<"a">>, <<>>}

\* scalars, and lists and dicts of scalars
StreamLevel ==
    StreamScalars \cup ListsOver(StreamScalars, MaxLen)
                  \cup MapsOver(StreamKeys, StreamScalars, MaxLen)

\* a value followed by a scalar, in a list and in a dict
StreamSiblings ==
    {JList(<<x, JNum(1)>>) : x \in StreamLevel}
        \cup {JMap(<< <<<<"a">>, x>>, <<<<"b">>, JNum(1)>> >>) : x \in StreamLevel}

StreamWrapped(S) ==
    S \cup {JList(<<x>>) : x \in S}
      \cup {JMap(<< <<k, x>> >>) : k \in StreamKeys, x \in S}

StreamDocs == StreamWrapped(StreamWrapped(StreamLevel) \cup StreamSiblings)

\* a file that holds one JSON document, ijson installed
InitStream ==
    /\ mode = "stream"
    /\ args \in [doc : StreamDocs]
    /\ ret = NoRet
    /\ StreamIdle
    /\ SettingsIdle /\ PoolIdle /\ HookIdle /\ PluginsIdle /\ WindowIdle

\* the generator runs to its loop: parser = ijson.parse(fh); stack = []
StreamStart ==
    /\ mode = "stream"
    /\ ret = NoRet
    /\ pending' = IjsonEvents(args.doc)
    /\ stack' = <<>>
    /\ ret' = [t |-> "generator"]
    /\ UNCHANGED <<mode, args, yielded>>
    /\ UNCHANGED <<settingsVars, poolVars, hookVars, pluginVars, windowVars>>

\* one turn of the loop, on the next event of the parser
StreamEvent ==
    /\ mode = "stream"
    /\ ret.t = "generator"
    /\ pending # <<>>
    /\ stack' = StackAfter(stack, Head(pending))
    /\ yielded' = yielded \o YieldOf(stack, Head(pending))
    /\ pending' = Tail(pending)
    /\ UNCHANGED <<mode, args, ret>>
    /\ UNCHANGED <<settingsVars, poolVars, hookVars, pluginVars, windowVars>>

\* the parser has no more events: the loop and the generator end
StreamEnd ==
    /\ mode = "stream"
    /\ ret.t = "generator"
    /\ pending = <<>>
    /\ ret' = [t |-> "StopIteration"]
    /\ UNCHANGED <<mode, args, streamVars>>
    /\ UNCHANGED <<settingsVars, poolVars, hookVars, pluginVars, windowVars>>

NextStream == StreamStart \/ StreamEvent \/ StreamEnd

SpecStream == InitStream /\ [][NextStream]_vars

\* the scalar nodes of a document in document order, each with the keys of
\* the maps that enclose it, from the root inwards
RECURSIVE ScalarNodes(_, _)
ScalarNodes(x, keys) ==
    IF IsMap(x)
    THEN ConcatAll([i \in 1..Len(x.pairs) |->
                      ScalarNodes(x.pairs[i][2], Append(keys, x.pairs[i][1]))])
    ELSE IF IsList(x)
    THEN ConcatAll([i \in 1..Len(x.items) |-> ScalarNodes(x.items[i], keys)])
    ELSE << <<keys, x>> >>

\* the containers open after the events read so far
OpenContainers ==
    LET all == IjsonEvents(args.doc)
        read == SubSeq(all, 1, Len(all) - Len(pending))
    IN  Len(SelectSeq(read, LAMBDA ev : ev.event \in {"start_map", "start_array"}))
          - Len(SelectSeq(read, LAMBDA ev : ev.event \in {"end_map", "end_array"}))

\* C22 (the stack): at every event the stack has one slot for each container
\* that is open, and it is empty once the document has been read.
C22_StackTracksOpenContainers ==
    (mode = "stream" /\ ret.t \in {"generator", "StopIteration"}) =>
        /\ Len(stack) = OpenContainers
        /\ pending = <<>> => stack = <<>>

\* C22: stream_tree_nodes yields exactly one (path, value) pair for each
\* scalar node of the document, in document order, the path being the
\* "."-join of the keys of the maps that enclose the scalar, from the root
\* inwards (a sequence adds no segment); the stack has one slot for each open
\* container at every event and is empty once the document has been read.
C22_StreamYieldsScalars ==
    /\ C22_StackTracksOpenContainers
    /\ (mode = "stream" /\ ret.t = "StopIteration") =>
          LET nodes == ScalarNodes(args.doc, <<>>)
          IN  yielded = [i \in 1..Len(nodes) |->
                            <<JoinChain(nodes[i][1], <<".">>), nodes[i][2]>>]

---------------------------------------------------------------------------
(* core/converter.py: restore_json on what flatten_json produces           *)

\* C23: restore_json terminates on every flat mapping that flatten_json can
\* produce, the mappings whose keys have a numeric segment before the last
\* one (from a sequence of maps or a nested sequence) included: its inner
\* padding loop always makes progress and exits.
C23_RestoreTerminates ==
    (mode = "flat" /\ ret.t = "restored") => ret.out # Hang

---------------------------------------------------------------------------
(* core/diff.py: diff on maps whose keys look like paths                   *)

\* keys that are empty, or hold "." or "[", next to plain ones
PathLikeKeys ==
    {<<"a">>, <<"b">>, <<>>, <<"a", ".", "b">>, <<"a", "[", "0", "]">>}

\* the dicts of at most MaxLen of these keys, each key with a value of V
PathLikeMaps(V) ==
    UNION {{JMap([i \in 1..Cardinality(S) |->
                    <<SortedStrs(S)[i], f[SortedStrs(S)[i]]>>]) : f \in [S -> V]}
           : S \in {T \in SUBSET PathLikeKeys : Cardinality(T) <= MaxLen}}

InitDiffKeys ==
    /\ mode = "diff"
    /\ args \in [a : PathLikeMaps({JNum(1), JMap(<< <<<<"b">>, JNum(1)>> >>),
                                   JList(<<JNum(1)>>)}),
                 b : PathLikeMaps({JNum(2), JMap(<< <<<<"b">>, JNum(2)>> >>),
                                   JList(<<JNum(2)>>)}),
                 prefix : {<<>>}]
    /\ ret = NoRet
    /\ ObjectsIdle

SpecDiffKeys == InitDiffKeys /\ [][NextDiff]_vars

\* C24: within one result of diff(a, b) no two entries carry the same path,
\* for all JSON values a and b, maps whose keys are empty or contain "." or
\* "[" included: a path names a single position.
C24_DiffPathsUnique ==
    (mode = "diff" /\ ret.t = "diff") =>
        \A i, j \in 1..Len(ret.entries) :
            ret.entries[i].path = ret.entries[j].path => i = j

\* two JSON values are equal: the same kind of value, equal scalars, sequences
\* equal element by element, maps with the same keys and equal values under
\* each key, in whatever order the keys were written
RECURSIVE JsonEqual(_, _)
JsonEqual(x, y) ==
    IF x.t # y.t THEN FALSE
    ELSE IF IsList(x) THEN
        /\ Len(x.items) = Len(y.items)
        /\ \A i \in 1..Len(x.items) : JsonEqual(x.items[i], y.items[i])
    ELSE IF IsMap(x) THEN
        /\ MapKeys(x) = MapKeys(y)
        /\ \A k \in MapKeys(x) : JsonEqual(MapGet(x, k), MapGet(y, k))
    ELSE x = y

\* C25: diff is complete: for all JSON values a and b, if diff(a, b) is the
\* empty list then a and b are equal, also when one is a map and the other
\* a sequence or a scalar.
C25_DiffComplete ==
    (DiffReturned /\ ret.entries = <<>>) => JsonEqual(args.a, args.b)

---------------------------------------------------------------------------
(* plugins/__init__.py: the life cycle of the plugin instances             *)

\* the instances activate() has been called on and deactivate() has not
ActiveInstances ==
    {calls[i].plugin : i \in {k \in 1..Len(calls) : calls[k].op = "activate"}}
        \ {calls[i].plugin : i \in {k \in 1..Len(calls) : calls[k].op = "deactivate"}}

\* the instances the registry holds
HeldInstances == {registry.pairs[i][2] : i \in 1..Len(registry.pairs)}

\* C26: after any sequence of load and unload calls, a load of a name that
\* is already loaded included, an instance has been activated and not yet
\* deactivated exactly when the registry holds it under its name, so that no
\* activated instance stays without a deactivate once its name is unloaded;
\* and unloading a name that is not registered calls nothing and changes
\* nothing.
C26_ActiveIffRegistered ==
    /\ [](mode = "plugins" => ActiveInstances = HeldInstances)
    /\ [][(mode = "plugins" /\ ret'.t = "unload" /\ ~MapHas(registry, ret'.name))
            => UNCHANGED pluginVars]_vars

---------------------------------------------------------------------------
(* app/settings.py: the property setters                                   *)

\* the change signal of a property
SignalOf(key) ==
    CASE key = "theme" -> "themeChanged"
      [] key = "language" -> "languageChanged"
      [] key = "networkEnabled" -> "networkEnabledChanged"

\* C27: assigning to theme, language or networkEnabled a value equal to the
\* one held changes nothing: no change signal is emitted and nothing is
\* written to disk. Assigning a different value stores it, then emits the
\* matching change signal exactly once with the new value, then saves, in
\* that order.
C27_SettersNotifyOnChange ==
    [][(mode = "settings" /\ args'.t = "set") =>
          LET key == args'.key
              value == args'.value
          IN  IF _data[key] = value
              THEN /\ events' = <<>>
                   /\ UNCHANGED <<_data, file>>
              ELSE /\ _data' = [_data EXCEPT ![key] = value]
                   /\ events' = <<[e |-> "store", key |-> key, value |-> value],
                                  [e |-> "emit", sig |-> SignalOf(key),
                                   value |-> value],
                                  [e |-> "save"]>>
                   /\ file' = _data']_vars

\* networkEnabled was just set to True: stored, announced once, saved
C27_Witness ==
    /\ mode = "settings"
    /\ args = [t |-> "set", key |-> "networkEnabled", value |-> TRUE]
    /\ _data.networkEnabled = TRUE
    /\ events = <<[e |-> "store", key |-> "networkEnabled", value |-> TRUE],
                  [e |-> "emit", sig |-> "networkEnabledChanged", value |-> TRUE],
                  [e |-> "save"]>>
    /\ file = _data

---------------------------------------------------------------------------
(* json_parser.py: closing tabs                                            *)

\* a workspace with nothing in it: no text, no tree, no filter, no path, the
\* copy buttons disabled, the tab text of a new page
Cleared(ws) ==
    /\ ws._editor = [t |-> "empty"]
    /\ ws._tree = <<>>
    /\ ws._filter_input = <<>>
    /\ ws._path_display = <<>>
    /\ ~ws._copy_path_button
    /\ ~ws._copy_value_button
    /\ ws.title = <<"u65B0", "u6570", "u636E", "u9875">>

\* C28: after any sequence of new-tab and close-tab actions the window holds
\* at least one workspace tab: closing the only tab clears that workspace
\* (editor, tree, filter, path display, copy buttons disabled, title reset)
\* instead of removing it, and closing a tab while several are open removes
\* exactly that tab and leaves the others as they are.
C28_TabsCloseOrClear ==
    /\ [](mode = "tabs" => Len(tabs) >= 1)
    /\ [][(mode = "tabs" /\ args'.t = "_close_tab") =>
            IF Len(tabs) = 1
            THEN Len(tabs') = 1 /\ Cleared(tabs'[1])
            ELSE tabs' = [k \in 1..(Len(tabs) - 1) |->
                            IF k < args'.index THEN tabs[k] ELSE tabs[k + 1]]]_vars

\* the first of two tabs was closed: the one tab left is the second page,
\* with the text, the tree and the selection it had
C28_Witness ==
    /\ mode = "tabs"
    /\ args = [t |-> "_close_tab", index |-> 1]
    /\ Len(tabs) = 1
    /\ tabs[1].title = PageTitle(2)
    /\ tabs[1]._editor # [t |-> "empty"]
    /\ tabs[1]._tree # <<>>
    /\ tabs[1]._copy_path_button

=============================================================================
